---- MODULE Spec2Model ----
(***************************************************************************)
(* A model of the shadcn-admin-go backend: the entity store (users, tasks, *)
(* apps, chat conversations and messages), the services that read and      *)
(* write it, the entity mappers, and the error taxonomy with its mapper.   *)
(*                                                                         *)
(* Text that the code inspects character by character (e-mail addresses,   *)
(* usernames, task titles and identifiers, LIKE patterns) is a sequence of *)
(* one-character strings; text that is only stored and copied is a TLA+    *)
(* string.  Time is logical: created_at is the order of insertion, and    *)
(* updated_at starts there and moves forward with every write to the row.  *)
(* The expiry of tokens and the timestamp of chat messages are left out.   *)
(***************************************************************************)
EXTENDS Integers, Sequences, FiniteSets, TLC

VARIABLES
    users,             \* users table: user id -> row
    userSeq,           \* number of user ids generated so far (gen_random_uuid)
    tasks,             \* tasks table: task id -> row
    taskSeq,           \* number of tasks inserted so far (orders created_at)
    apps,              \* apps table: app id -> row
    conversations,     \* chat_conversations table: chat id -> row
    messages,          \* chat_messages table, in auto-increment order
    resp,              \* the last call and what it returned (sequential calls)
    pc,                \* per request in flight: the statement it runs next
    loc,               \* per request in flight: its request and local variables
    ctxErr,            \* ctx.Err() of the context the requests are served under
    hideErrorDetails,  \* handlers.hideErrorDetails
    errIn,             \* the error last handed to OgenErrorHandler
    httpResp,          \* the response OgenErrorHandler wrote for it
    rowCount,          \* SpecTaskID: the row count BeforeCreate reads
    newID,             \* SpecTaskID: the identifier BeforeCreate assigned
    middlewares,       \* RouterBuilder.middlewares
    handler,           \* the http.Handler Build returned: the steps it runs, in order
    trace,             \* the steps that ran for the last request served
    services           \* the services the OgenHandler was built with

vars == <<users, userSeq, tasks, taskSeq, apps, conversations, messages, resp,
          pc, loc, ctxErr, hideErrorDetails, errIn, httpResp, rowCount, newID,
          middlewares, handler, trace, services>>

storeVars == <<users, userSeq, tasks, taskSeq, apps, conversations, messages>>
procVars == <<pc, loc, ctxErr>>
errVars == <<hideErrorDetails, errIn, httpResp>>
idVars == <<rowCount, newID>>
wiringVars == <<middlewares, handler, trace, services>>

\* A value for "no value": a nil pointer, an unset optional, no response yet.
None == [none |-> TRUE]
\* The same for a string-valued place: a nil error, an unset optional string.
Nil == "<nil>"

(***************************************************************************)
(* Bounds of the model.                                                    *)
(***************************************************************************)
MaxChain == 3        \* longest error chain handed to the error mapper
MaxMessages == 3     \* most chat messages stored
MaxPageRows == 3     \* SpecPage: most rows ever inserted (users and tasks together)
MaxPage == 2         \* SpecPage: largest page number requested
MaxPageSize == 2     \* SpecPage: largest page size requested
MaxFilterRows == 2   \* SpecFilter: most rows ever inserted (users and tasks together)
MaxAppWrites == 2    \* SpecApp: most writes to one app
MaxCrudRows == 2     \* SpecCrud: most rows ever inserted (users and tasks together)
MaxUpdates == 1      \* SpecCrud: most updates applied to the rows stored
MaxRowCount == 10000 \* SpecTaskID: largest row count the ID hook reads
MaxRaceRows == 2     \* SpecRace: most tasks ever inserted
MaxAuthRows == 2     \* SpecAuth: most users ever inserted
MaxCtxRows == 1      \* SpecCtx: most rows ever inserted (users and tasks together)
MaxCreateRows == 2   \* SpecCreate: most users ever inserted
MaxMapRows == 1      \* SpecMap: most rows ever inserted (users and tasks together)
MaxUpdRaceRows == 1  \* SpecUpdRace: most users, and most tasks, ever inserted
MaxListRaceRows == 2 \* SpecListRace: most rows ever inserted (users and tasks together)
MaxMiddlewares == 3  \* SpecRouter: most middlewares added to the builder
MaxFacadeRows == 1   \* SpecFacade: most rows ever inserted (users and tasks together)
MaxUserRaceRows == 2 \* SpecUserRace: most users ever inserted
MaxRaceUpdates == 2  \* SpecUserRace, SpecUpdRace: most updates written

(***************************************************************************)
(* Helpers on sequences.                                                   *)
(***************************************************************************)
Range(s) == {s[i] : i \in 1..Len(s)}

RECURSIVE SeqsUpTo(_, _)
SeqsUpTo(S, n) ==
    IF n = 0 THEN {<<>>}
    ELSE LET shorter == SeqsUpTo(S, n - 1)
         IN  shorter \cup {Append(s, x) : s \in {t \in shorter : Len(t) = n - 1}, x \in S}

(***************************************************************************)
(* services/errors.go: the sentinel errors.  An error value is the         *)
(* sequence of the errors in its chain, outermost first, in the order      *)
(* errors.Is visits them; the nil error is the empty chain.                *)
(***************************************************************************)
ErrUserNotFound       == "user not found"
ErrTaskNotFound       == "task not found"
ErrAppNotFound        == "app not found"
ErrChatNotFound       == "chat not found"
ErrInvalidCredentials == "invalid credentials"
ErrUnauthorized       == "unauthorized"
ErrDuplicateEmail     == "email already exists"
ErrDuplicateUsername  == "username already exists"

Sentinels == {ErrUserNotFound, ErrTaskNotFound, ErrAppNotFound, ErrChatNotFound,
              ErrInvalidCredentials, ErrUnauthorized, ErrDuplicateEmail,
              ErrDuplicateUsername}

\* context.Canceled, context.DeadlineExceeded, and the node fmt.Errorf("...: %w")
\* puts in front of the error it wraps.
Canceled         == "context canceled"
DeadlineExceeded == "context deadline exceeded"
WrapError        == "fmt.wrapError"

\* gorm.ErrRecordNotFound: what First returns when no row matches.
ErrRecordNotFound == "record not found"

NilError == <<>>

\* fmt.Errorf("<msg>: %w", err)
Errorf(err) == <<WrapError>> \o err

\* (A comparison with ==, which sees the outermost error only.)
errorsEqual(err, target) == err # <<>> /\ err[1] = target

\* errors.Is(err, target): some error of the chain is the target.
ErrorsIs(err, target) == \E i \in 1..Len(err) : err[i] = target

(***************************************************************************)
(* handlers/error_codes.go: the error table.                               *)
(***************************************************************************)
ErrorCode(code, message, status, serviceErr) ==
    [Code |-> code, Message |-> message, HTTPStatus |-> status, ServiceErr |-> serviceErr]

errorCodes ==
    [UserNotFound       |-> ErrorCode("USER_NOT_FOUND", "User not found", 404, ErrUserNotFound),
     TaskNotFound       |-> ErrorCode("TASK_NOT_FOUND", "Task not found", 404, ErrTaskNotFound),
     AppNotFound        |-> ErrorCode("APP_NOT_FOUND", "App not found", 404, ErrAppNotFound),
     ChatNotFound       |-> ErrorCode("CHAT_NOT_FOUND", "Chat not found", 404, ErrChatNotFound),
     InvalidCredentials |-> ErrorCode("INVALID_CREDENTIALS", "Invalid email or password", 401,
                                      ErrInvalidCredentials),
     Unauthorized       |-> ErrorCode("UNAUTHORIZED", "Authentication required", 401,
                                      ErrUnauthorized),
     DuplicateEmail     |-> ErrorCode("DUPLICATE_EMAIL", "Email already exists", 409,
                                      ErrDuplicateEmail),
     DuplicateUsername  |-> ErrorCode("DUPLICATE_USERNAME", "Username already exists", 409,
                                      ErrDuplicateUsername),
     BadRequest         |-> ErrorCode("BAD_REQUEST", "Invalid request", 400, Nil),
     InternalError      |-> ErrorCode("INTERNAL_ERROR", "An internal error occurred", 500, Nil),
     RequestCancelled   |-> ErrorCode("REQUEST_CANCELLED", "Request was cancelled", 499, Nil),
     RequestTimeout     |-> ErrorCode("REQUEST_TIMEOUT", "Request timed out", 504, Nil)]

Errors == errorCodes

AllErrors ==
    <<errorCodes.UserNotFound, errorCodes.TaskNotFound, errorCodes.AppNotFound,
      errorCodes.ChatNotFound, errorCodes.InvalidCredentials, errorCodes.Unauthorized,
      errorCodes.DuplicateEmail, errorCodes.DuplicateUsername, errorCodes.BadRequest,
      errorCodes.InternalError, errorCodes.RequestCancelled, errorCodes.RequestTimeout>>

(***************************************************************************)
(* handlers/error_handler.go                                               *)
(***************************************************************************)
\* The loop of mapServiceError: the first table entry, from index i on, whose
\* sentinel is in the chain; the internal-error entry when there is none.
RECURSIVE scanTable(_, _)
scanTable(err, i) ==
    IF i > Len(AllErrors) THEN Errors.InternalError
    ELSE IF AllErrors[i].ServiceErr # Nil /\ ErrorsIs(err, AllErrors[i].ServiceErr)
         THEN AllErrors[i]
         ELSE scanTable(err, i + 1)

\* A mapper that looks for the sentinels before the context errors.
mapServiceErrorSentinelFirst(err) ==
    LET found == scanTable(err, 1)
    IN  IF found # Errors.InternalError THEN found
        ELSE IF ErrorsIs(err, Canceled) THEN Errors.RequestCancelled
        ELSE IF ErrorsIs(err, DeadlineExceeded) THEN Errors.RequestTimeout
        ELSE Errors.InternalError

mapServiceError(err) ==
    IF ErrorsIs(err, Canceled) THEN Errors.RequestCancelled
    ELSE IF ErrorsIs(err, DeadlineExceeded) THEN Errors.RequestTimeout
    ELSE scanTable(err, 1)

\* The errors handed to the handler: every chain of at most MaxChain errors.
ErrAtoms == Sentinels \cup {Canceled, DeadlineExceeded, WrapError}
ErrInputs == SeqsUpTo(ErrAtoms, MaxChain)

SetHideErrorDetails(hide) ==
    /\ hideErrorDetails' = hide
    /\ UNCHANGED <<errIn, httpResp>>
    /\ UNCHANGED <<storeVars, procVars, idVars, wiringVars, resp>>

\* OgenErrorHandler on the pending error errIn.  err.Error() is the text of
\* the chain; the chain itself stands for it.
OgenErrorHandler ==
    LET err == errIn
        errCode == mapServiceError(err)
    IN  /\ httpResp = None
        /\ httpResp' = [status  |-> errCode.HTTPStatus,
                        code    |-> errCode.Code,
                        message |-> errCode.Message,
                        details |-> IF ~hideErrorDetails /\ err # NilError THEN <<err>> ELSE <<>>]
        /\ UNCHANGED <<hideErrorDetails, errIn>>
        /\ UNCHANGED <<storeVars, procVars, idVars, wiringVars, resp>>

(***************************************************************************)
(* The store, as the services use it through gorm.  A table is a function  *)
(* from primary key to row.                                                *)
(***************************************************************************)
\* (A table that never finds the key: no primary-key check.)
HasRowNever(table, id) == FALSE

\* db.Where("id = ?", id).First(&row): the row, or gorm.ErrRecordNotFound.
HasRow(table, id) == id \in DOMAIN table

\* (A First that fails for another reason when no row matches.)
FirstErrorOther(table, id) == IF HasRow(table, id) THEN NilError ELSE <<"connection refused">>

\* The error of db.Where("id = ?", id).First(&row).
FirstError(table, id) == IF HasRow(table, id) THEN NilError ELSE <<ErrRecordNotFound>>

\* INSERT of one row under the key id.
InsertRow(table, id, row) == [k \in DOMAIN table \cup {id} |-> IF k = id THEN row ELSE table[k]]

\* The SET clause of Update/Updates applied to one row: the given columns take
\* the given values, and gorm adds the model's autoUpdateTime column, set to
\* the time of the write.  Time is logical: a write stamps the row with a time
\* later than the one it held.
setColumns(row, updates) ==
    [c \in DOMAIN row |->
        IF c \in DOMAIN updates THEN updates[c]
        ELSE IF c = "UpdatedAt" THEN row[c] + 1
        ELSE row[c]]

\* (An UPDATE that lost its WHERE clause.)
UpdateColumnsAll(table, id, updates) ==
    [k \in DOMAIN table |-> setColumns(table[k], updates)]

\* db.Model(&row).Update(column, value) and Updates(map): UPDATE ... SET the
\* given columns WHERE id = row.ID.  No row with that key: nothing changes.
UpdateColumns(table, id, updates) ==
    [k \in DOMAIN table |-> IF k = id THEN setColumns(table[k], updates) ELSE table[k]]

\* (A DELETE that lost its WHERE clause.)
DeleteRowAll(table, id) == [k \in {} |-> table[k]]

\* db.Where("id = ?", id).Delete(&Model{}): the table without the row.
DeleteRow(table, id) == [k \in DOMAIN table \ {id} |-> table[k]]

\* result.RowsAffected of that DELETE.
RowsAffected(table, id) == IF id \in DOMAIN table THEN 1 ELSE 0

\* An optional of the API (api.OptString, api.OptDateTime): unset, or set to v.
OptUnset == <<>>
OptSet(v) == <<v>>
\* (A mapper that sets the optional whatever the stored text.)
OptAlways(v) == OptSet(v)

\* api.NewOptString(v) when v is not the empty string, unset otherwise.
OptIfNonEmpty(v) == IF v # "" THEN OptSet(v) ELSE OptUnset
\* A *time.Time column holds <<>> for nil and <<t>> for a pointer to t;
\* api.NewOptDateTime(*p) when p is not nil, unset otherwise.
OptIfNonNil(p) == IF p # <<>> THEN OptSet(p[1]) ELSE OptUnset

(***************************************************************************)
(* Text, as Go and PostgreSQL treat it.                                    *)
(***************************************************************************)
UpperToLower == [A |-> "a", B |-> "b", C |-> "c", K |-> "k", S |-> "s", T |-> "t"]
ToLower(c) == IF c \in DOMAIN UpperToLower THEN UpperToLower[c] ELSE c
LowerStr(s) == [i \in 1..Len(s) |-> ToLower(s[i])]

\* s LIKE pat: % matches any run of characters, _ any one character, and a
\* backslash takes the next character literally.  (A pattern that ends in a
\* lone backslash is an error in PostgreSQL; the patterns built here end in %.)
RECURSIVE LikeMatch(_, _)
LikeMatch(pat, s) ==
    IF pat = <<>> THEN s = <<>>
    ELSE IF Head(pat) = "%"
         THEN LikeMatch(Tail(pat), s) \/ (s # <<>> /\ LikeMatch(pat, Tail(s)))
    ELSE IF Head(pat) = "_"
         THEN s # <<>> /\ LikeMatch(Tail(pat), Tail(s))
    ELSE IF Head(pat) = "\\"
         THEN /\ Len(pat) >= 2
              /\ s # <<>>
              /\ pat[2] = Head(s)
              /\ LikeMatch(Tail(Tail(pat)), Tail(s))
    ELSE s # <<>> /\ Head(pat) = Head(s) /\ LikeMatch(Tail(pat), Tail(s))

\* s ILIKE pat
ILike(s, pat) == LikeMatch(LowerStr(pat), LowerStr(s))

\* column ILIKE "%"+filter+"%", the predicate of every text filter.
ILikeContains(s, filter) == ILike(s, <<"%">> \o filter \o <<"%">>)

\* (The part before the last "@".)
SplitBeforeLast(email) ==
    LET at == {i \in 1..Len(email) : email[i] = "@"}
    IN  IF at = {} THEN email
        ELSE SubSeq(email, 1, (CHOOSE i \in at : \A j \in at : i >= j) - 1)

\* strings.Split(email, "@")[0]
SplitFirst(email) ==
    LET at == {i \in 1..Len(email) : email[i] = "@"}
    IN  IF at = {} THEN email
        ELSE SubSeq(email, 1, (CHOOSE i \in at : \A j \in at : i <= j) - 1)

\* opt.Or(default) and opt.Get() of the API's optionals.
Or(opt, default) == IF opt = OptUnset THEN default ELSE opt[1]
IsSet(opt) == opt # OptUnset

\* (An updates map with an entry for every field of the request, the zero
\* value for a field that is not set: what saving the whole struct writes.)
updatesOfEveryField(req) == [f \in DOMAIN req |-> IF IsSet(req[f]) THEN req[f][1] ELSE ""]

\* The updates map the update handlers build: one entry for each field of the
\* request that is set.
updatesOf(req) == [f \in {g \in DOMAIN req : IsSet(req[g])} |-> req[f][1]]

\* Every ordering of a finite set, as sequences.
Orderings(S) == {o \in [1..Cardinality(S) -> S] : \A i, j \in 1..Cardinality(S) : i # j => o[i] # o[j]}

\* (OFFSET without LIMIT.)
OffsetNoLimit(rows, offset, limit) ==
    SubSeq(rows, (IF offset > 0 THEN offset ELSE 0) + 1, Len(rows))

\* OFFSET offset LIMIT limit of rows already in order.  gorm writes no OFFSET
\* clause for an offset that is not positive.
OffsetLimit(rows, offset, limit) ==
    LET from == IF offset > 0 THEN offset ELSE 0
        upto == IF from + limit < Len(rows) THEN from + limit ELSE Len(rows)
    IN  SubSeq(rows, from + 1, upto)

\* The page count both list handlers compute from the total.
totalPagesNoRoundUp(total, pageSize) == total \div pageSize

totalPagesOf(total, pageSize) ==
    IF total % pageSize > 0 THEN (total \div pageSize) + 1 ELSE total \div pageSize

\* The driver's error for a violated unique index or primary key.
PgUniqueViolation == "pq: duplicate key value violates unique constraint"

\* (A test for a text that the driver's error does not contain.)
isDuplicateKeyErrorOtherText(err) == "Error 1062: Duplicate entry" \in Range(err)

\* isDuplicateKeyError(err): the text of err contains "duplicate key" or
\* "UNIQUE constraint".
isDuplicateKeyError(err) == PgUniqueViolation \in Range(err)

\* An update that translates a duplicate key as Create does.
updateUserErrorTranslated(dbErr) ==
    IF isDuplicateKeyError(dbErr) THEN Errorf(<<ErrDuplicateEmail>>) ELSE Errorf(dbErr)

\* The error Update returns when its UPDATE statement fails:
\* fmt.Errorf("update user: %w", err), whatever the driver's error is.
updateUserError(dbErr) == Errorf(dbErr)

\* A response that holds no value (the nil of a result).
NoResult == [kind |-> "nil"]

\* The head of a handler: select { case <-ctx.Done(): return nil, ctx.Err();
\* default: }.  With a context that is done the handler returns here.
Aborted(op) ==
    /\ resp' = [op |-> op, err |-> ctxErr, res |-> NoResult]
    /\ UNCHANGED <<storeVars, procVars, errVars, idVars, wiringVars>>

(***************************************************************************)
(* Users (services/user_service.go, services/auth_service.go).             *)
(***************************************************************************)
\* bcrypt: a hash of the password; CompareHashAndPassword accepts exactly the
\* password that was hashed.
Hash(password) == <<"bcrypt", password>>
CompareHashAndPassword(hash, password) == hash = Hash(password)

userToAPI(u) ==
    [ID |-> u.ID, FirstName |-> u.FirstName, LastName |-> u.LastName,
     Username |-> u.Username, Email |-> u.Email, Status |-> u.Status, Role |-> u.Role,
     CreatedAt |-> OptSet(u.CreatedAt), UpdatedAt |-> OptSet(u.UpdatedAt),
     PhoneNumber |-> OptIfNonEmpty(u.PhoneNumber)]

\* (A users table without its unique indexes.)
UserUniqueUnchecked(username, email, excluding) == FALSE

\* The unique indexes of users: username and email.  excluding: the row that
\* is being rewritten (0 for an insert).
UserUniqueViolated(username, email, excluding) ==
    \E k \in DOMAIN users \ {excluding} :
        users[k].Username = username \/ users[k].Email = email

\* db.Create(user) of Create and Invite: the error, and the table afterwards.
\* The id is the next one of gen_random_uuid, which never repeats; created_at
\* and updated_at are the time of the insert.
createUserRow(op, req, user) ==
    IF UserUniqueViolated(user.Username, user.Email, 0)
    THEN LET dbErr == <<PgUniqueViolation>>
         IN  /\ resp' = [op |-> op, req |-> req,
                         err |-> IF isDuplicateKeyError(dbErr)
                                 THEN Errorf(<<ErrDuplicateEmail>>)
                                 ELSE Errorf(dbErr),
                         res |-> NoResult]
             /\ UNCHANGED <<users, userSeq>>
    ELSE LET id == userSeq + 1
             row == [user EXCEPT !.ID = id, !.CreatedAt = id, !.UpdatedAt = id]
         IN  /\ users' = InsertRow(users, id, row)
             /\ userSeq' = id
             /\ resp' = [op |-> op, req |-> req, err |-> NilError,
                         res |-> [kind |-> "User", body |-> userToAPI(row)]]

CreateUser(req) ==
    IF ctxErr # NilError THEN Aborted("CreateUser")
    ELSE
        LET username == SplitFirst(req.Email)
            user == [ID |-> 0, FirstName |-> req.FirstName, LastName |-> req.LastName,
                     Username |-> username, Email |-> req.Email,
                     Password |-> Hash("changeme123"),
                     PhoneNumber |-> IF IsSet(req.PhoneNumber) THEN req.PhoneNumber[1] ELSE "",
                     Status |-> "active", Role |-> req.Role,
                     CreatedAt |-> 0, UpdatedAt |-> 0]
        IN  /\ createUserRow("CreateUser", req, user)
            /\ UNCHANGED <<tasks, taskSeq, apps, conversations, messages>>
            /\ UNCHANGED <<procVars, errVars, idVars, wiringVars>>

InviteUser(req) ==
    IF ctxErr # NilError THEN Aborted("InviteUser")
    ELSE
        LET username == SplitFirst(req.Email)
            user == [ID |-> 0, FirstName |-> "Invited", LastName |-> "User",
                     Username |-> username, Email |-> req.Email,
                     Password |-> Hash("invited123"),
                     PhoneNumber |-> "",
                     Status |-> "invited", Role |-> req.Role,
                     CreatedAt |-> 0, UpdatedAt |-> 0]
        IN  /\ createUserRow("InviteUser", req, user)
            /\ UNCHANGED <<tasks, taskSeq, apps, conversations, messages>>
            /\ UNCHANGED <<procVars, errVars, idVars, wiringVars>>

GetUser(userId) ==
    IF ctxErr # NilError THEN Aborted("GetUser")
    ELSE
        /\ resp' = [op |-> "GetUser", err |-> NilError,
                    res |-> IF HasRow(users, userId)
                            THEN [kind |-> "User", body |-> userToAPI(users[userId])]
                            ELSE [kind |-> "GetUserNotFound"]]
        /\ UNCHANGED <<storeVars, procVars, errVars, idVars, wiringVars>>

\* The fields of an UpdateUserRequest, each an optional, and the column each
\* one is written to.
UserUpdateFields == {"FirstName", "LastName", "Email", "PhoneNumber", "Status", "Role"}

UpdateUser(userId, req) ==
    IF ctxErr # NilError THEN Aborted("UpdateUser")
    ELSE
        /\ IF FirstError(users, userId) # NilError
           THEN LET err == FirstError(users, userId)
                    notFound == ErrorsIs(err, ErrRecordNotFound)
                IN  /\ resp' = [op |-> "UpdateUser", userId |-> userId, req |-> req,
                                err |-> IF notFound THEN NilError ELSE Errorf(err),
                                res |-> IF notFound THEN [kind |-> "UpdateUserNotFound"] ELSE NoResult]
                    /\ UNCHANGED users
           ELSE LET updates == updatesOf(req)
                IN  IF /\ DOMAIN updates # {}
                       /\ "Email" \in DOMAIN updates
                       /\ UserUniqueViolated(users[userId].Username, updates.Email, userId)
                    THEN /\ resp' = [op |-> "UpdateUser", userId |-> userId, req |-> req,
                                     err |-> updateUserError(<<PgUniqueViolation>>), res |-> NoResult]
                         /\ UNCHANGED users
                    ELSE /\ users' = IF DOMAIN updates # {}
                                     THEN UpdateColumns(users, userId, updates)
                                     ELSE users
                         /\ resp' = [op |-> "UpdateUser", userId |-> userId, req |-> req,
                                     err |-> NilError,
                                     res |-> [kind |-> "User", body |-> userToAPI(users'[userId])]]
        /\ UNCHANGED <<userSeq, tasks, taskSeq, apps, conversations, messages>>
        /\ UNCHANGED <<procVars, errVars, idVars, wiringVars>>

DeleteUser(userId) ==
    IF ctxErr # NilError THEN Aborted("DeleteUser")
    ELSE
        /\ users' = DeleteRow(users, userId)
        /\ resp' = [op |-> "DeleteUser", userId |-> userId, err |-> NilError,
                    res |-> IF RowsAffected(users, userId) = 0
                            THEN [kind |-> "DeleteUserNotFound"]
                            ELSE [kind |-> "DeleteUserNoContent"]]
        /\ UNCHANGED <<userSeq, tasks, taskSeq, apps, conversations, messages>>
        /\ UNCHANGED <<procVars, errVars, idVars, wiringVars>>

\* The WHERE clause ListUsers builds from its parameters.
UserMatches(u, params) ==
    /\ params.Status # {} => u.Status \in params.Status
    /\ params.Role # {} => u.Role \in params.Role
    /\ (IsSet(params.Username) /\ params.Username[1] # <<>>)
           => ILikeContains(u.Username, params.Username[1])

\* ListUsers: the count, then the page.  The page query has no ORDER BY, so the
\* store may return the matching rows in any order.
ListUsers(params) ==
    IF ctxErr # NilError THEN Aborted("ListUsers")
    ELSE
        LET page == Or(params.Page, 1)
            pageSize == Or(params.PageSize, 10)
            offset == (page - 1) * pageSize
            matching == {k \in DOMAIN users : UserMatches(users[k], params)}
            total == Cardinality(matching)
        IN  /\ \E order \in Orderings(matching) :
                   LET found == OffsetLimit(order, offset, pageSize)
                   IN  resp' = [op |-> "ListUsers", err |-> NilError, params |-> params,
                                res |-> [kind |-> "UserListResponse",
                                         Data |-> [i \in 1..Len(found) |-> userToAPI(users[found[i]])],
                                         Meta |-> [Page |-> page, PageSize |-> pageSize,
                                                   Total |-> total,
                                                   TotalPages |-> totalPagesOf(total, pageSize)]]]
            /\ UNCHANGED <<storeVars, procVars, errVars, idVars, wiringVars>>

\* generateAccessToken(userID, exp); the expiry is not modelled.
generateAccessToken(userID) == <<"token", userID>>

\* What the generated encoder writes for a LoginRes: 401 for *ErrorResponse,
\* 200 for *LoginResponse.
LoginStatus(res) == IF res.kind = "ErrorResponse" THEN 401 ELSE 200

\* (An error response that tells an unknown email from a wrong password.)
invalidCredentialsByCause(cause) ==
    [kind |-> "ErrorResponse", Code |-> "",
     Message |-> IF cause = "email" THEN ErrUserNotFound ELSE ErrInvalidCredentials,
     AccessToken |-> OptUnset]

\* &api.ErrorResponse{Message: ErrInvalidCredentials.Error()}, returned when
\* no user has the email (cause "email") and when the password does not match
\* (cause "password").
invalidCredentials(cause) ==
    [kind |-> "ErrorResponse", Code |-> "", Message |-> ErrInvalidCredentials,
     AccessToken |-> OptUnset]

\* What Login returns for a request, in the store as it is.
LoginRes(req) ==
    LET found == {k \in DOMAIN users : users[k].Email = req.Email}
    IN  IF found = {} THEN invalidCredentials("email")
        ELSE LET user == users[CHOOSE k \in found : TRUE]
             IN  IF ~CompareHashAndPassword(user.Password, req.Password)
                 THEN invalidCredentials("password")
                 ELSE [kind |-> "LoginResponse",
                       User |-> [AccountNo |-> user.ID, Email |-> user.Email,
                                 Role |-> <<user.Role>>],
                       AccessToken |-> OptSet(generateAccessToken(user.ID))]

Login(req) ==
    IF ctxErr # NilError THEN Aborted("Login")
    ELSE
        /\ resp' = [op |-> "Login", err |-> NilError, req |-> req,
                    status |-> LoginStatus(LoginRes(req)), res |-> LoginRes(req)]
        /\ UNCHANGED <<storeVars, procVars, errVars, idVars, wiringVars>>

(***************************************************************************)
(* Tasks (models.Task in services/auth_methods.go, the task handlers in    *)
(* services/dashboard_methods.go).                                         *)
(***************************************************************************)
TaskIDWidth == 4
TaskPrefix == <<"T", "A", "S", "K", "-">>
Digits == <<"0", "1", "2", "3", "4", "5", "6", "7", "8", "9">>

\* padNumber(num, width): width times, the last digit of num goes in front of
\* the text and num is divided by ten.
RECURSIVE padNumber(_, _)
padNumber(num, width) ==
    IF width = 0 THEN <<>>
    ELSE padNumber(num \div 10, width - 1) \o <<Digits[(num % 10) + 1]>>

generateTaskID(num) == TaskPrefix \o padNumber(num, TaskIDWidth)

\* An identifier drawn from a sequence that counts the rows ever inserted and
\* the inserts in flight, instead of the rows stored now.
BeforeCreateFromSequence(id, count) ==
    IF id = <<>>
    THEN generateTaskID(taskSeq + Cardinality({p \in DOMAIN pc : pc[p] = "insert"}) + 1)
    ELSE id

\* Task.BeforeCreate: a task without an ID gets one from the row count read now.
BeforeCreate(id, count) == IF id = <<>> THEN generateTaskID(count + 1) ELSE id

\* tx.Model(&Task{}).Count(&count)
CountTasks == Cardinality(DOMAIN tasks)

taskToAPI(t) ==
    [ID |-> t.ID, Title |-> t.Title, Status |-> t.Status, Label |-> t.Label,
     Priority |-> t.Priority,
     CreatedAt |-> OptSet(t.CreatedAt), UpdatedAt |-> OptSet(t.UpdatedAt),
     Assignee |-> OptIfNonEmpty(t.Assignee),
     Description |-> OptIfNonEmpty(t.Description),
     DueDate |-> OptIfNonNil(t.DueDate)]

\* The task the handler builds from a CreateTaskRequest; its ID is empty.
NewTask(req) ==
    [ID |-> <<>>, Title |-> req.Title, Status |-> req.Status, Label |-> req.Label,
     Priority |-> req.Priority,
     Assignee |-> IF IsSet(req.Assignee) THEN req.Assignee[1] ELSE "",
     Description |-> IF IsSet(req.Description) THEN req.Description[1] ELSE "",
     DueDate |-> req.DueDate,
     CreatedAt |-> 0, UpdatedAt |-> 0]

CreateTask(req) ==
    IF ctxErr # NilError THEN Aborted("CreateTask")
    ELSE
        LET id == BeforeCreate(NewTask(req).ID, CountTasks)
            task == [NewTask(req) EXCEPT !.ID = id, !.CreatedAt = taskSeq + 1,
                                         !.UpdatedAt = taskSeq + 1]
        IN  /\ IF HasRow(tasks, id)
               THEN /\ resp' = [op |-> "CreateTask", err |-> Errorf(<<PgUniqueViolation>>),
                                res |-> NoResult]
                    /\ UNCHANGED <<tasks, taskSeq>>
               ELSE /\ tasks' = InsertRow(tasks, id, task)
                    /\ taskSeq' = taskSeq + 1
                    /\ resp' = [op |-> "CreateTask", err |-> NilError,
                                res |-> [kind |-> "Task", body |-> taskToAPI(task)]]
            /\ UNCHANGED <<users, userSeq, apps, conversations, messages>>
            /\ UNCHANGED <<procVars, errVars, idVars, wiringVars>>

GetTask(taskId) ==
    IF ctxErr # NilError THEN Aborted("GetTask")
    ELSE
        /\ resp' = [op |-> "GetTask", err |-> NilError,
                    res |-> IF HasRow(tasks, taskId)
                            THEN [kind |-> "Task", body |-> taskToAPI(tasks[taskId])]
                            ELSE [kind |-> "ErrorResponse", Code |-> "", Message |-> ErrTaskNotFound]]
        /\ UNCHANGED <<storeVars, procVars, errVars, idVars, wiringVars>>

\* The fields of an UpdateTaskRequest, each an optional, and the column each
\* one is written to.  due_date is a nullable column: the update stores a date.
TaskUpdateFields == {"Title", "Status", "Label", "Priority", "Assignee", "Description", "DueDate"}

UpdateTask(taskId, req) ==
    IF ctxErr # NilError THEN Aborted("UpdateTask")
    ELSE
        /\ IF FirstError(tasks, taskId) # NilError
           THEN LET err == FirstError(tasks, taskId)
                    notFound == ErrorsIs(err, ErrRecordNotFound)
                IN  /\ resp' = [op |-> "UpdateTask", taskId |-> taskId, req |-> req,
                                err |-> IF notFound THEN NilError ELSE Errorf(err),
                                res |-> IF notFound THEN [kind |-> "UpdateTaskNotFound"] ELSE NoResult]
                    /\ UNCHANGED tasks
           ELSE LET set == updatesOf(req)
                    updates == [f \in DOMAIN set |->
                                   IF f = "DueDate" THEN OptSet(set[f]) ELSE set[f]]
                IN  /\ tasks' = IF DOMAIN updates # {}
                                THEN UpdateColumns(tasks, taskId, updates)
                                ELSE tasks
                    /\ resp' = [op |-> "UpdateTask", taskId |-> taskId, req |-> req,
                                err |-> NilError,
                                res |-> [kind |-> "Task", body |-> taskToAPI(tasks'[taskId])]]
        /\ UNCHANGED <<taskSeq, users, userSeq, apps, conversations, messages>>
        /\ UNCHANGED <<procVars, errVars, idVars, wiringVars>>

DeleteTask(taskId) ==
    IF ctxErr # NilError THEN Aborted("DeleteTask")
    ELSE
        /\ tasks' = DeleteRow(tasks, taskId)
        /\ resp' = [op |-> "DeleteTask", taskId |-> taskId, err |-> NilError,
                    res |-> IF RowsAffected(tasks, taskId) = 0
                            THEN [kind |-> "DeleteTaskNotFound"]
                            ELSE [kind |-> "DeleteTaskNoContent"]]
        /\ UNCHANGED <<taskSeq, users, userSeq, apps, conversations, messages>>
        /\ UNCHANGED <<procVars, errVars, idVars, wiringVars>>

\* The WHERE clause ListTasks builds from its parameters.
TaskMatches(t, params) ==
    /\ params.Status # {} => t.Status \in params.Status
    /\ params.Priority # {} => t.Priority \in params.Priority
    /\ (IsSet(params.Filter) /\ params.Filter[1] # <<>>)
           => \/ ILikeContains(t.Title, params.Filter[1])
              \/ ILikeContains(t.ID, params.Filter[1])

\* (ORDER BY created_at ASC.)
ByCreatedAtAsc(ids) ==
    CHOOSE o \in Orderings(ids) :
        \A i, j \in 1..Len(o) : i < j => tasks[o[i]].CreatedAt < tasks[o[j]].CreatedAt

\* ORDER BY created_at DESC of a set of task ids.
ByCreatedAtDesc(ids) ==
    CHOOSE o \in Orderings(ids) :
        \A i, j \in 1..Len(o) : i < j => tasks[o[i]].CreatedAt > tasks[o[j]].CreatedAt

\* The ids the page query of ListTasks finds:
\* query.Offset(offset).Limit(pageSize).Order("created_at DESC").Find(&tasks).
TaskPageIDs(params) ==
    LET pageSize == Or(params.PageSize, 10)
        offset == (Or(params.Page, 1) - 1) * pageSize
        matching == {k \in DOMAIN tasks : TaskMatches(tasks[k], params)}
    IN  OffsetLimit(ByCreatedAtDesc(matching), offset, pageSize)

ListTasks(params) ==
    IF ctxErr # NilError THEN Aborted("ListTasks")
    ELSE
        LET page == Or(params.Page, 1)
            pageSize == Or(params.PageSize, 10)
            offset == (page - 1) * pageSize
            matching == {k \in DOMAIN tasks : TaskMatches(tasks[k], params)}
            total == Cardinality(matching)
            found == TaskPageIDs(params)
        IN  /\ resp' = [op |-> "ListTasks", err |-> NilError, params |-> params,
                        res |-> [kind |-> "TaskListResponse",
                                 Data |-> [i \in 1..Len(found) |-> taskToAPI(tasks[found[i]])],
                                 Meta |-> [Page |-> page, PageSize |-> pageSize,
                                           Total |-> total,
                                           TotalPages |-> totalPagesOf(total, pageSize)]]]
            /\ UNCHANGED <<storeVars, procVars, errVars, idVars, wiringVars>>

(***************************************************************************)
(* Apps (services: appServiceImpl; AdminService has the same bodies).      *)
(* Apps are registered outside the API: the initial table is any table     *)
(* over AppIds.                                                            *)
(***************************************************************************)
AppIds == {"slack", "zoom", "figma"}
MissingAppId == "nope"
AppLogos == {"", "logo.png"}

\* Names are text that the store matches and sorts.
AppNames == [slack |-> <<"s", "k">>, zoom |-> <<"z">>, figma |-> <<"f">>]

AppRow(id, logo, connected) ==
    [ID |-> id, Name |-> AppNames[id], Desc |-> "integration", Logo |-> logo, Connected |-> connected,
     CreatedAt |-> 0, UpdatedAt |-> 0]

AppTables ==
    UNION {[ids -> {"", "logo.png"} \X BOOLEAN] : ids \in SUBSET AppIds}

appToAPI(a) ==
    [ID |-> a.ID, Name |-> a.Name, Desc |-> a.Desc, Connected |-> a.Connected,
     Logo |-> OptIfNonEmpty(a.Logo)]

\* Connect (connected = TRUE) and Disconnect (connected = FALSE) share a body.
setConnected(op, appId, connected) ==
    IF ~HasRow(apps, appId)
    THEN /\ resp' = [op |-> op, appId |-> appId, err |-> <<ErrAppNotFound>>, body |-> None]
         /\ UNCHANGED apps
    ELSE LET app == [apps[appId] EXCEPT !.Connected = connected]
         IN  /\ apps' = UpdateColumns(apps, appId, [Connected |-> connected])
             /\ resp' = [op |-> op, appId |-> appId, err |-> NilError, body |-> appToAPI(app)]

ConnectApp(appId) ==
    IF ctxErr # NilError THEN Aborted("ConnectApp")
    ELSE
        /\ setConnected("ConnectApp", appId, TRUE)
        /\ UNCHANGED <<users, userSeq, tasks, taskSeq, conversations, messages>>
        /\ UNCHANGED <<procVars, errVars, idVars, wiringVars>>

DisconnectApp(appId) ==
    IF ctxErr # NilError THEN Aborted("DisconnectApp")
    ELSE
        /\ setConnected("DisconnectApp", appId, FALSE)
        /\ UNCHANGED <<users, userSeq, tasks, taskSeq, conversations, messages>>
        /\ UNCHANGED <<procVars, errVars, idVars, wiringVars>>

(***************************************************************************)
(* Chat (services/chat_service.go).  Conversations are registered outside  *)
(* the API: the initial table is any table over ChatIds.                   *)
(***************************************************************************)
ChatIds == {"c1", "c2"}
MissingChatId == "c9"
MessageTexts == {"hi", "yo"}

ChatUsernames == [c1 |-> <<"a", "b">>, c2 |-> <<"B">>]
ChatFullNames == [c1 |-> <<"A", "b", "c">>, c2 |-> <<"B", "a">>]

ChatRow(id, title, profile) ==
    [ID |-> id, Username |-> ChatUsernames[id], FullName |-> ChatFullNames[id],
     Title |-> title, Profile |-> profile]

ChatTables ==
    UNION {[ids -> {"", "Dr"} \X {"", "pic.png"}] : ids \in SUBSET ChatIds}

\* A send that skips the check.
chatExistsUnchecked(chatId) == TRUE

\* "Check if chat exists": First(&conversation) found a row.
chatExists(chatId) == HasRow(conversations, chatId)

SendMessage(chatId, text) ==
    IF ctxErr # NilError THEN Aborted("SendMessage")
    ELSE
        /\ Len(messages) < MaxMessages
        /\ IF ~chatExists(chatId)
           THEN /\ resp' = [op |-> "SendMessage", chatId |-> chatId, text |-> text,
                            err |-> <<ErrChatNotFound>>, body |-> None]
                /\ UNCHANGED messages
           ELSE LET message == [ID |-> Len(messages) + 1, ChatID |-> chatId,
                                Sender |-> "current_user", Message |-> text]
                IN  /\ messages' = Append(messages, message)
                    /\ resp' = [op |-> "SendMessage", chatId |-> chatId, text |-> text,
                                err |-> NilError,
                                body |-> [Sender |-> message.Sender, Message |-> message.Message]]
        /\ UNCHANGED <<users, userSeq, tasks, taskSeq, apps, conversations>>
        /\ UNCHANGED <<procVars, errVars, idVars, wiringVars>>

\* messages of one conversation, as Preload("Messages") loads them.
MessagesOf(chatId) == SelectSeq(messages, LAMBDA m : m.ChatID = chatId)

chatConversationToAPI(c, loaded) ==
    [ID |-> c.ID, Username |-> c.Username, FullName |-> c.FullName,
     Messages |-> [i \in 1..Len(loaded) |->
                      [Sender |-> loaded[i].Sender, Message |-> loaded[i].Message]],
     Title |-> OptIfNonEmpty(c.Title),
     Profile |-> OptIfNonEmpty(c.Profile)]

\* The WHERE clause ListChats builds from its parameter.
ChatMatches(c, params) ==
    (IsSet(params.Search) /\ params.Search[1] # <<>>)
        => \/ ILikeContains(c.FullName, params.Search[1])
           \/ ILikeContains(c.Username, params.Search[1])

\* ListChats: no ORDER BY, so the rows come in any order.
ListChats(params) ==
    IF ctxErr # NilError THEN Aborted("ListChats")
    ELSE
        LET matching == {k \in DOMAIN conversations : ChatMatches(conversations[k], params)}
        IN  /\ \E order \in Orderings(matching) :
                   resp' = [op |-> "ListChats", err |-> NilError, params |-> params,
                            res |-> [kind |-> "ChatListResponse",
                                     Data |-> [i \in 1..Len(order) |->
                                                  chatConversationToAPI(conversations[order[i]],
                                                                        MessagesOf(order[i]))]]]
            /\ UNCHANGED <<storeVars, procVars, errVars, idVars, wiringVars>>

GetChat(chatId) ==
    IF ctxErr # NilError THEN Aborted("GetChat")
    ELSE
        /\ resp' = [op |-> "GetChat", chatId |-> chatId, err |-> NilError,
                    res |-> IF HasRow(conversations, chatId)
                            THEN [kind |-> "ChatConversation",
                                  body |-> chatConversationToAPI(conversations[chatId],
                                                                 MessagesOf(chatId))]
                            ELSE [kind |-> "GetChatNotFound"]]
        /\ UNCHANGED <<storeVars, procVars, errVars, idVars, wiringVars>>

(***************************************************************************)
(* ListApps (appServiceImpl.List).                                         *)
(***************************************************************************)
\* The collation of the characters that names are made of, and the order it
\* gives to text.
Collation == <<"@", "B", "_", "a", "b", "c", "f", "k", "s", "x", "z">>
CharRank(c) == CHOOSE i \in 1..Len(Collation) : Collation[i] = c

RECURSIVE TextLess(_, _)
TextLess(a, b) ==
    IF b = <<>> THEN FALSE
    ELSE IF a = <<>> THEN TRUE
    ELSE IF Head(a) = Head(b) THEN TextLess(Tail(a), Tail(b))
    ELSE CharRank(Head(a)) < CharRank(Head(b))

\* The WHERE clause ListApps builds from its parameters.
AppMatches(a, params) ==
    /\ params.Type = OptSet("connected") => a.Connected
    /\ params.Type = OptSet("notConnected") => ~a.Connected
    /\ (IsSet(params.Filter) /\ params.Filter[1] # <<>>)
           => ILikeContains(a.Name, params.Filter[1])

\* The ORDER BY clause: name ASC, name DESC, or none.
AppOrdered(order, params) ==
    \A i, j \in 1..Len(order) :
        i < j => /\ params.Sort = OptSet("asc")
                      => ~TextLess(apps[order[j]].Name, apps[order[i]].Name)
                 /\ params.Sort = OptSet("desc")
                      => ~TextLess(apps[order[i]].Name, apps[order[j]].Name)

ListApps(params) ==
    IF ctxErr # NilError THEN Aborted("ListApps")
    ELSE
        LET matching == {k \in DOMAIN apps : AppMatches(apps[k], params)}
        IN  /\ \E order \in {o \in Orderings(matching) : AppOrdered(o, params)} :
                   resp' = [op |-> "ListApps", err |-> NilError, params |-> params,
                            res |-> [kind |-> "AppListResponse",
                                     Data |-> [i \in 1..Len(order) |->
                                                  appToAPI(apps[order[i]])]]]
            /\ UNCHANGED <<storeVars, procVars, errVars, idVars, wiringVars>>

(***************************************************************************)
(* Logout and GetCurrentUser (services/auth_service.go): neither has the   *)
(* head that the other handlers have.                                      *)
(***************************************************************************)
Logout ==
    /\ resp' = [op |-> "Logout", err |-> NilError, res |-> NoResult]
    /\ UNCHANGED <<storeVars, procVars, errVars, idVars, wiringVars>>

\* (A GetCurrentUser that answers with the user of the login just before it.)
GetCurrentUserOfLogin ==
    /\ resp' = [op |-> "GetCurrentUser", err |-> NilError,
                res |-> IF resp # None /\ resp.op = "Login" /\ resp.res.kind = "LoginResponse"
                        THEN [kind |-> "AuthUser", User |-> resp.res.User]
                        ELSE [kind |-> "GetCurrentUserUnauthorized"]]
    /\ UNCHANGED <<storeVars, procVars, errVars, idVars, wiringVars>>

GetCurrentUser ==
    /\ resp' = [op |-> "GetCurrentUser", err |-> NilError,
                res |-> [kind |-> "GetCurrentUserUnauthorized"]]
    /\ UNCHANGED <<storeVars, procVars, errVars, idVars, wiringVars>>

(***************************************************************************)
(* The dashboard (services/dashboard_methods.go): fixed figures.  Amounts  *)
(* that are not whole numbers are kept as text.                            *)
(***************************************************************************)
DashboardStats ==
    [TotalRevenue  |-> [Value |-> OptSet("45231.89"), Change |-> OptSet("+20.1% from last month")],
     Subscriptions |-> [Value |-> OptSet(2350), Change |-> OptSet("+180.1% from last month")],
     Sales         |-> [Value |-> OptSet(12234), Change |-> OptSet("+19% from last month")],
     ActiveNow     |-> [Value |-> OptSet(573), Change |-> OptSet("+201 since last hour")]]

OverviewItem(name, total) == [Name |-> OptSet(name), Total |-> OptSet(total)]

DashboardOverview ==
    [Data |-> <<OverviewItem("Jan", 4500), OverviewItem("Feb", 3200), OverviewItem("Mar", 5100),
                OverviewItem("Apr", 4800), OverviewItem("May", 6200), OverviewItem("Jun", 5800),
                OverviewItem("Jul", 4900), OverviewItem("Aug", 5500), OverviewItem("Sep", 6100),
                OverviewItem("Oct", 5300), OverviewItem("Nov", 4700), OverviewItem("Dec", 6800)>>]

RecentSale(name, email, avatar, amount) ==
    [Name |-> name, Email |-> email, Avatar |-> OptSet(avatar), Amount |-> amount]

RecentSales ==
    [Data |-> <<RecentSale("Olivia Martin", "olivia.martin@email.com", "/avatars/01.png", 1999),
                RecentSale("Jackson Lee", "jackson.lee@email.com", "/avatars/02.png", 39),
                RecentSale("Isabella Nguyen", "isabella.nguyen@email.com", "/avatars/03.png", 299),
                RecentSale("William Kim", "will@email.com", "/avatars/04.png", 99),
                RecentSale("Sofia Davis", "sofia.davis@email.com", "/avatars/05.png", 39)>>,
     TotalSales |-> 2475]

GetDashboardStats ==
    IF ctxErr # NilError THEN Aborted("GetDashboardStats")
    ELSE
        /\ resp' = [op |-> "GetDashboardStats", err |-> NilError,
                    res |-> [kind |-> "DashboardStats", body |-> DashboardStats]]
        /\ UNCHANGED <<storeVars, procVars, errVars, idVars, wiringVars>>

GetDashboardOverview ==
    IF ctxErr # NilError THEN Aborted("GetDashboardOverview")
    ELSE
        /\ resp' = [op |-> "GetDashboardOverview", err |-> NilError,
                    res |-> [kind |-> "DashboardOverview", body |-> DashboardOverview]]
        /\ UNCHANGED <<storeVars, procVars, errVars, idVars, wiringVars>>

GetRecentSales ==
    IF ctxErr # NilError THEN Aborted("GetRecentSales")
    ELSE
        /\ resp' = [op |-> "GetRecentSales", err |-> NilError,
                    res |-> [kind |-> "RecentSalesResponse", body |-> RecentSales]]
        /\ UNCHANGED <<storeVars, procVars, errVars, idVars, wiringVars>>

(***************************************************************************)
(* Initial state: empty tables, no request in flight, the Go zero value    *)
(* of the package variable hideErrorDetails.                               *)
(***************************************************************************)
EmptyTable == <<>>

\* The services an OgenHandler can be built with (OgenHandlerBuilder.With*).
AllServices == {"auth", "user", "task", "app", "chat", "dashboard"}

\* No router built yet; the handler has all of its services.
InitWiring ==
    /\ middlewares = <<>>
    /\ handler = <<>>
    /\ trace = <<>>
    /\ services = AllServices

InitStore ==
    /\ users = EmptyTable
    /\ userSeq = 0
    /\ tasks = EmptyTable
    /\ taskSeq = 0
    /\ apps = EmptyTable
    /\ conversations = EmptyTable
    /\ messages = <<>>

InitRest ==
    /\ resp = None
    /\ pc = <<>>
    /\ loc = <<>>
    /\ ctxErr = NilError
    /\ hideErrorDetails = FALSE
    /\ errIn = NilError
    /\ httpResp = None
    /\ rowCount = 0
    /\ newID = <<>>
    /\ InitWiring

Init == InitStore /\ InitRest

(***************************************************************************)
(* Calls made one at a time: a call is made when the response of the one   *)
(* before has been taken.                                                  *)
(***************************************************************************)
Ack ==
    /\ resp # None
    /\ resp' = None
    /\ UNCHANGED <<storeVars, procVars, errVars, idVars, wiringVars>>

Idle == resp = None

Inserted == userSeq + taskSeq

UserIds(maxRows) == 1..(maxRows + 1)
TaskIds(maxRows) == {generateTaskID(n) : n \in 1..(maxRows + 1)}

(***************************************************************************)
(* SpecPage: users and tasks are created, invited and deleted, and listed  *)
(* with every page and page size up to the bounds.                         *)
(***************************************************************************)
Emails == {<<"a", "b", "@", "x">>, <<"B", "@", "x">>, <<"c", "@", "x">>}

PageCreateUserReqs ==
    [FirstName : {"Ann"}, LastName : {"Lee"}, Email : Emails,
     Role : {"admin"}, PhoneNumber : {OptUnset}]
PageInviteUserReqs == [Email : Emails, Role : {"cashier"}]
PageCreateTaskReqs ==
    [Title : {<<"a", "b">>}, Status : {"todo", "done"}, Label : {"feature"},
     Priority : {"low"}, Assignee : {OptUnset}, Description : {OptUnset},
     DueDate : {OptUnset}]

Pages == {OptUnset} \cup {OptSet(n) : n \in 1..MaxPage}
PageSizes == {OptUnset} \cup {OptSet(n) : n \in 1..MaxPageSize}

PageListUsersParams ==
    [Page : Pages, PageSize : PageSizes, Status : {{}, {"active"}}, Role : {{}},
     Username : {OptUnset}]
PageListTasksParams ==
    [Page : Pages, PageSize : PageSizes, Status : {{}, {"todo"}}, Priority : {{}},
     Filter : {OptUnset}]

NextPage ==
    \/ \E req \in PageCreateUserReqs : Idle /\ Inserted < MaxPageRows /\ CreateUser(req)
    \/ \E req \in PageInviteUserReqs : Idle /\ Inserted < MaxPageRows /\ InviteUser(req)
    \/ \E req \in PageCreateTaskReqs : Idle /\ Inserted < MaxPageRows /\ CreateTask(req)
    \/ \E id \in UserIds(MaxPageRows) : Idle /\ DeleteUser(id)
    \/ \E id \in TaskIds(MaxPageRows) : Idle /\ DeleteTask(id)
    \/ \E params \in PageListUsersParams : Idle /\ ListUsers(params)
    \/ \E params \in PageListTasksParams : Idle /\ ListTasks(params)
    \/ Ack

SpecPage == Init /\ [][NextPage]_vars

(***************************************************************************)
(* SpecFilter: the same calls, listing with every combination of filters   *)
(* and the default page.                                                   *)
(***************************************************************************)
TextFilters == {OptUnset, OptSet(<<>>), OptSet(<<"B">>), OptSet(<<"a", "b">>), OptSet(<<"_">>)}
TaskTextFilters == TextFilters \cup {OptSet(<<"1">>)}

FilterCreateUserReqs ==
    [FirstName : {"Ann"}, LastName : {"Lee"}, Email : Emails,
     Role : {"admin", "cashier"}, PhoneNumber : {OptUnset}]
FilterInviteUserReqs == [Email : Emails, Role : {"cashier"}]
FilterCreateTaskReqs ==
    [Title : {<<"a", "b">>, <<"B">>}, Status : {"todo", "done"}, Label : {"feature"},
     Priority : {"low", "high"}, Assignee : {OptUnset}, Description : {OptUnset},
     DueDate : {OptUnset}]

FilterListUsersParams ==
    [Page : {OptUnset}, PageSize : {OptUnset},
     Status : {{}, {"active"}, {"invited"}, {"active", "invited"}, {"suspended"}},
     Role : {{}, {"admin"}, {"admin", "cashier"}},
     Username : TextFilters]
FilterListTasksParams ==
    [Page : {OptUnset}, PageSize : {OptUnset},
     Status : {{}, {"todo"}, {"done"}, {"todo", "done"}, {"canceled"}},
     Priority : {{}, {"high"}, {"low", "high"}},
     Filter : TaskTextFilters]

NextFilter ==
    \/ \E req \in FilterCreateUserReqs : Idle /\ Inserted < MaxFilterRows /\ CreateUser(req)
    \/ \E req \in FilterInviteUserReqs : Idle /\ Inserted < MaxFilterRows /\ InviteUser(req)
    \/ \E req \in FilterCreateTaskReqs : Idle /\ Inserted < MaxFilterRows /\ CreateTask(req)
    \/ \E id \in UserIds(MaxFilterRows) : Idle /\ DeleteUser(id)
    \/ \E id \in TaskIds(MaxFilterRows) : Idle /\ DeleteTask(id)
    \/ \E params \in FilterListUsersParams : Idle /\ ListUsers(params)
    \/ \E params \in FilterListTasksParams : Idle /\ ListTasks(params)
    \/ Ack

SpecFilter == Init /\ [][NextFilter]_vars

IsList == resp # None /\ resp.op \in {"ListUsers", "ListTasks"}

\* ceil(a / b) for a >= 0, b >= 1: the least n with n * b >= a.
CeilDiv(a, b) == CHOOSE n \in 0..a : n * b >= a /\ \A m \in 0..a : m * b >= a => n <= m

\* C1: for every ListUsers and ListTasks request with page size s >= 1, in every
\* store state, the response has total_pages = ceil(total / s) and at most s
\* rows of data.
C1_Pagination ==
    IsList =>
        LET s == Or(resp.params.PageSize, 10)
        IN  s >= 1 =>
                /\ resp.res.Meta.TotalPages = CeilDiv(resp.res.Meta.Total, s)
                /\ Len(resp.res.Data) <= s
                /\ resp.res.Meta.PageSize = s

\* A list of three matching rows in pages of two: the second page holds the
\* one row left over.
C1_Witness ==
    /\ IsList
    /\ resp.params.PageSize = OptSet(2)
    /\ resp.params.Page = OptSet(2)
    /\ resp.res.Meta.Total = 3
    /\ resp.res.Meta.TotalPages = 2
    /\ Len(resp.res.Data) = 1

\* sub occurs in s, letter case ignored.
ContainsFold(s, sub) ==
    \E i \in 0..(Len(s) - Len(sub)) : LowerStr(SubSeq(s, i + 1, i + Len(sub))) = LowerStr(sub)

TextFilterApplies(filter) == IsSet(filter) /\ filter[1] # <<>>

UserSatisfies(u, params) ==
    /\ params.Status # {} => u.Status \in params.Status
    /\ params.Role # {} => u.Role \in params.Role
    /\ TextFilterApplies(params.Username) => ContainsFold(u.Username, params.Username[1])

TaskSatisfies(t, params) ==
    /\ params.Status # {} => t.Status \in params.Status
    /\ params.Priority # {} => t.Priority \in params.Priority
    /\ TextFilterApplies(params.Filter)
           => ContainsFold(t.Title, params.Filter[1]) \/ ContainsFold(t.ID, params.Filter[1])

ListedFrom(expected) ==
    /\ resp.res.Meta.Total = Cardinality(expected)
    /\ {resp.res.Data[i].ID : i \in 1..Len(resp.res.Data)} \subseteq expected
    /\ (resp.res.Meta.Page = 1 /\ resp.res.Meta.Total <= resp.res.Meta.PageSize)
           => {resp.res.Data[i].ID : i \in 1..Len(resp.res.Data)} = expected

FilterSemantics ==
    /\ (resp # None /\ resp.op = "ListUsers")
           => ListedFrom({k \in DOMAIN users : UserSatisfies(users[k], resp.params)})
    /\ (resp # None /\ resp.op = "ListTasks")
           => ListedFrom({k \in DOMAIN tasks : TaskSatisfies(tasks[k], resp.params)})

\* C7: for ListUsers and ListTasks, the rows returned and the total are taken
\* from exactly the set of rows that satisfy every supplied non-empty filter
\* together (status in the given set AND role/priority in the given set AND the
\* text filter matches as a case-insensitive substring); a filter that is
\* absent or empty does not narrow the result.
C7_FiltersAsClaimed == FilterSemantics

\* The same statement for text filters without the LIKE wildcards % and _ and
\* the escape character: it holds of the handlers.
PlainText(filter) ==
    ~TextFilterApplies(filter) \/ Range(filter[1]) \cap {"%", "_", "\\"} = {}

C7_PlainTextFilters ==
    (/\ IsList
     /\ resp.op = "ListUsers" => PlainText(resp.params.Username)
     /\ resp.op = "ListTasks" => PlainText(resp.params.Filter))
    => FilterSemantics

\* The number of filtered tasks created after task k: its position, from 0,
\* in the filtered set ordered by creation time descending.
TaskPosition(k, filtered) ==
    Cardinality({o \in filtered : tasks[o].CreatedAt > tasks[k].CreatedAt})

\* The ids on page q of the list that params asks for.
TaskPageSet(params, q) ==
    LET ids == TaskPageIDs([params EXCEPT !.Page = OptSet(q)])
    IN  {ids[i] : i \in 1..Len(ids)}

\* C23: ListTasks with page p >= 1 and page size s >= 1 (1 and 10 when absent)
\* returns the rows at positions (p-1)*s through p*s-1 of the filtered set
\* ordered by creation time descending; on an unchanged store the pages
\* 1..total_pages are pairwise disjoint and together hold every filtered task
\* exactly once, and any page beyond total_pages is empty.
C23_TaskPages ==
    /\ (resp # None /\ resp.op = "ListTasks" /\ resp.err = NilError) =>
           LET p == Or(resp.params.Page, 1)
               s == Or(resp.params.PageSize, 10)
               filtered == {k \in DOMAIN tasks : TaskSatisfies(tasks[k], resp.params)}
               onPage == {k \in filtered : /\ TaskPosition(k, filtered) >= (p - 1) * s
                                          /\ TaskPosition(k, filtered) <= p * s - 1}
           IN  /\ resp.res.Meta.Page = p /\ resp.res.Meta.PageSize = s
               /\ Len(resp.res.Data) = Cardinality(onPage)
               /\ \A k \in onPage :
                      resp.res.Data[TaskPosition(k, filtered) - (p - 1) * s + 1] = taskToAPI(tasks[k])
    /\ \A params \in {r \in PageListTasksParams : resp = None /\ r.Page = OptUnset} :
           LET s == Or(params.PageSize, 10)
               filtered == {k \in DOMAIN tasks : TaskSatisfies(tasks[k], params)}
               totalPages == CeilDiv(Cardinality(filtered), s)
           IN  /\ \A q1, q2 \in 1..totalPages :
                      q1 # q2 => TaskPageSet(params, q1) \cap TaskPageSet(params, q2) = {}
               /\ UNION {TaskPageSet(params, q) : q \in 1..totalPages} = filtered
               /\ \A q \in 1..totalPages :
                      Cardinality(TaskPageSet(params, q))
                          = Len(TaskPageIDs([params EXCEPT !.Page = OptSet(q)]))
               /\ \A q \in (totalPages + 1)..(totalPages + 2) :
                      TaskPageIDs([params EXCEPT !.Page = OptSet(q)]) = <<>>

\* The second page of three tasks in pages of two holds the task created
\* first.
C23_Witness ==
    /\ resp # None
    /\ resp.op = "ListTasks"
    /\ resp.params.Page = OptSet(2)
    /\ resp.params.PageSize = OptSet(2)
    /\ resp.params.Status = {}
    /\ Cardinality(DOMAIN tasks) = 3
    /\ Len(resp.res.Data) = 1
    /\ \A k \in DOMAIN tasks : tasks[k].CreatedAt >= resp.res.Data[1].CreatedAt[1]

\* C25: in any sequential history of CreateTask without a supplied ID and
\* DeleteTask, every CreateTask succeeds and the ID it assigns differs from
\* the ID of every task stored at that moment.
C25_CreateAfterDelete ==
    [][\A req \in PageCreateTaskReqs :
          (Idle /\ resp' # None /\ resp'.op = "CreateTask" /\ CreateTask(req)) =>
              /\ resp'.err = NilError
              /\ resp'.res.kind = "Task"
              /\ resp'.res.body.ID \notin DOMAIN tasks
              /\ DOMAIN tasks' = DOMAIN tasks \cup {resp'.res.body.ID}]_vars

\* What holds instead: the ID is the one of the row count plus one, and the
\* call succeeds exactly when no stored task has it.
C25_SucceedsUnlessStored ==
    [][\A req \in PageCreateTaskReqs :
          (Idle /\ resp' # None /\ resp'.op = "CreateTask" /\ CreateTask(req)) =>
              LET id == generateTaskID(Cardinality(DOMAIN tasks) + 1)
              IN  IF id \in DOMAIN tasks
                  THEN resp'.err # NilError /\ tasks' = tasks
                  ELSE /\ resp'.err = NilError
                       /\ resp'.res.body.ID = id
                       /\ DOMAIN tasks' = DOMAIN tasks \cup {id}]_vars

(***************************************************************************)
(* SpecErr: a request failed with any error chain (errIn), and the error   *)
(* handler writes the response for it, under either setting of the detail  *)
(* flag.                                                                   *)
(***************************************************************************)
InitErr ==
    /\ InitStore
    /\ resp = None
    /\ pc = <<>>
    /\ loc = <<>>
    /\ ctxErr = NilError
    /\ hideErrorDetails = FALSE
    /\ errIn \in ErrInputs
    /\ httpResp = None
    /\ rowCount = 0
    /\ newID = <<>>
    /\ InitWiring

NextErr ==
    \/ \E hide \in BOOLEAN : SetHideErrorDetails(hide)
    \/ OgenErrorHandler

SpecErr == InitErr /\ [][NextErr]_vars

\* C10: the error mapper classifies every error to exactly one table entry, in
\* this order: cancellation in the chain gives request-cancelled (499) before
\* anything else; otherwise a deadline signal gives request-timeout (504);
\* otherwise the entry of a domain sentinel in the chain; otherwise the generic
\* internal-error entry (500).  An error that wraps both a cancellation signal
\* and a domain sentinel is classified as cancelled.
SentinelEntries == {AllErrors[i] : i \in {j \in 1..Len(AllErrors) : AllErrors[j].ServiceErr # Nil}}

C10_MapperOrder ==
    httpResp # None =>
        LET hasCancel   == Canceled \in Range(errIn)
            hasDeadline == DeadlineExceeded \in Range(errIn)
            matching    == {e \in SentinelEntries : e.ServiceErr \in Range(errIn)}
            got         == {AllErrors[i] : i \in {j \in 1..Len(AllErrors) :
                                /\ AllErrors[j].Code = httpResp.code
                                /\ AllErrors[j].HTTPStatus = httpResp.status
                                /\ AllErrors[j].Message = httpResp.message}}
        IN  /\ Cardinality(got) = 1
            /\ hasCancel => got = {Errors.RequestCancelled} /\ httpResp.status = 499
            /\ ~hasCancel /\ hasDeadline =>
                   got = {Errors.RequestTimeout} /\ httpResp.status = 504
            /\ ~hasCancel /\ ~hasDeadline /\ matching # {} => got \subseteq matching
            /\ ~hasCancel /\ ~hasDeadline /\ matching = {} =>
                   got = {Errors.InternalError} /\ httpResp.status = 500

\* An error wrapping both a cancellation signal and a domain sentinel was handled.
C10_Witness ==
    /\ httpResp # None
    /\ Canceled \in Range(errIn)
    /\ Range(errIn) \cap Sentinels # {}
    /\ WrapError \in Range(errIn)

\* C11: for every domain sentinel S and every wrapping depth, an error whose
\* chain contains S (and no cancellation or deadline signal) is emitted with
\* S's own code and status: 404 for the user/task/app/chat not-found sentinels,
\* 401 for invalid-credentials and unauthorized, 409 for duplicate-email and
\* duplicate-username.  (S is the sentinel of the chain: a sentinel wraps
\* nothing, so a chain built with %w ends in the one sentinel it holds.)
NotFoundSentinels == {ErrUserNotFound, ErrTaskNotFound, ErrAppNotFound, ErrChatNotFound}
CredentialSentinels == {ErrInvalidCredentials, ErrUnauthorized}
DuplicateSentinels == {ErrDuplicateEmail, ErrDuplicateUsername}

ClaimedStatus(S) ==
    IF S \in NotFoundSentinels THEN 404
    ELSE IF S \in CredentialSentinels THEN 401
    ELSE 409

OwnEntries(S) == {e \in SentinelEntries : e.ServiceErr = S}

C11_SentinelStatus ==
    httpResp # None =>
        \A S \in Sentinels :
            (/\ Range(errIn) \cap Sentinels = {S}
             /\ Canceled \notin Range(errIn)
             /\ DeadlineExceeded \notin Range(errIn))
            => /\ Cardinality(OwnEntries(S)) = 1
               /\ \A e \in OwnEntries(S) :
                      /\ httpResp.code = e.Code
                      /\ httpResp.message = e.Message
                      /\ httpResp.status = e.HTTPStatus
               /\ httpResp.status = ClaimedStatus(S)

\* The duplicate-email sentinel, wrapped twice, was answered with 409.
C11_Witness ==
    /\ httpResp # None
    /\ errIn = <<WrapError, WrapError, ErrDuplicateEmail>>
    /\ httpResp.status = 409
    /\ httpResp.code = "DUPLICATE_EMAIL"

\* C12: the error response body carries the raw error detail text only when a
\* debug/verbose flag has been enabled; under the default configuration (the
\* flag was never set) the details field is withheld and only the stable code
\* and message are emitted.
C12_DetailsWithheldByDefault ==
    [][(hideErrorDetails = FALSE /\ OgenErrorHandler) => httpResp'.details = <<>>]_vars

\* What the handler does: the details are the text of the error unless the
\* flag is set to hide them or the error is nil.
C12_DetailsUnlessHidden ==
    [][OgenErrorHandler
       => httpResp'.details = IF hideErrorDetails \/ errIn = NilError THEN <<>> ELSE <<errIn>>]_vars

(***************************************************************************)
(* SpecApp: connect and disconnect calls, one at a time, on any registered *)
(* set of apps.                                                            *)
(***************************************************************************)
InitApp ==
    /\ users = EmptyTable
    /\ userSeq = 0
    /\ tasks = EmptyTable
    /\ taskSeq = 0
    /\ \E t \in AppTables : apps = [id \in DOMAIN t |-> AppRow(id, t[id][1], t[id][2])]
    /\ conversations = EmptyTable
    /\ messages = <<>>
    /\ InitRest

\* The logical time of a row is capped: an app is written MaxAppWrites times.
AppWritable(id) == id \in DOMAIN apps => apps[id].UpdatedAt < MaxAppWrites

NextApp ==
    \/ \E id \in AppIds \cup {MissingAppId} : AppWritable(id) /\ ConnectApp(id)
    \/ \E id \in AppIds \cup {MissingAppId} : AppWritable(id) /\ DisconnectApp(id)

SpecApp == InitApp /\ [][NextApp]_vars

\* C8: ConnectApp on an existing app stores connected=true and returns the app
\* with connected=true, and DisconnectApp stores and returns connected=false,
\* whatever the previous value; the app's id, name, description and logo and
\* every other app are unchanged, so the stored flag of an app is the flag set
\* by the last connect/disconnect call on it.
C8_ConnectDisconnect ==
    [][\A id \in AppIds, flag \in BOOLEAN :
          (/\ id \in DOMAIN apps
           /\ IF flag THEN ConnectApp(id) ELSE DisconnectApp(id))
          => /\ DOMAIN apps' = DOMAIN apps
             /\ apps'[id].Connected = flag
             /\ \A f \in {"ID", "Name", "Desc", "Logo", "CreatedAt"} : apps'[id][f] = apps[id][f]
             /\ \A other \in DOMAIN apps \ {id} : apps'[other] = apps[other]
             /\ resp'.err = NilError
             /\ resp'.body.ID = id
             /\ resp'.body.Connected = flag
             /\ resp'.body.Name = apps[id].Name
             /\ resp'.body.Desc = apps[id].Desc]_vars

\* A disconnect of a connected app answered, while another app stays connected.
C8_Witness ==
    /\ resp # None
    /\ resp.op = "DisconnectApp"
    /\ resp.err = NilError
    /\ resp.body.Connected = FALSE
    /\ \E other \in DOMAIN apps : other # resp.appId /\ apps[other].Connected

(***************************************************************************)
(* SpecChat: messages sent, one call at a time, to any registered set of   *)
(* conversations.                                                          *)
(***************************************************************************)
InitChat ==
    /\ users = EmptyTable
    /\ userSeq = 0
    /\ tasks = EmptyTable
    /\ taskSeq = 0
    /\ apps = EmptyTable
    /\ \E t \in ChatTables :
          conversations = [id \in DOMAIN t |-> ChatRow(id, t[id][1], t[id][2])]
    /\ messages = <<>>
    /\ InitRest

NextChat ==
    \E chatId \in ChatIds \cup {MissingChatId}, text \in MessageTexts : SendMessage(chatId, text)

SpecChat == InitChat /\ [][NextChat]_vars

\* C9: SendMessage to a conversation identifier that matches no stored
\* conversation returns the chat-not-found error and persists no message;
\* SendMessage to an existing conversation persists exactly one new message for
\* that conversation with the request's text.
C9_SendMessage ==
    [][\A chatId \in ChatIds \cup {MissingChatId}, text \in MessageTexts :
          SendMessage(chatId, text)
          => /\ conversations' = conversations
             /\ chatId \notin DOMAIN conversations
                  => /\ messages' = messages
                     /\ resp'.err = <<ErrChatNotFound>>
                     /\ resp'.body = None
                     /\ mapServiceError(resp'.err) = Errors.ChatNotFound
             /\ chatId \in DOMAIN conversations
                  => /\ Len(messages') = Len(messages) + 1
                     /\ SubSeq(messages', 1, Len(messages)) = messages
                     /\ messages'[Len(messages')].ChatID = chatId
                     /\ messages'[Len(messages')].Message = text
                     /\ resp'.err = NilError
                     /\ resp'.body.Message = text]_vars

\* A send to a missing conversation was refused after a send to an existing
\* one had stored its message.
C9_Witness ==
    /\ resp # None
    /\ resp.op = "SendMessage"
    /\ resp.chatId \notin DOMAIN conversations
    /\ resp.err = <<ErrChatNotFound>>
    /\ Len(messages) >= 1
    /\ conversations # EmptyTable

(***************************************************************************)
(* SpecCrud: users and tasks are created, read, updated and deleted, one   *)
(* call at a time.  An update request sets nothing, one field, all fields  *)
(* but one, or all fields.                                                 *)
(***************************************************************************)
CrudEmails == {<<"a", "b", "@", "x">>, <<"B", "@", "x">>}

CrudCreateUserReqs ==
    [FirstName : {"Ann"}, LastName : {"Lee"}, Email : CrudEmails,
     Role : {"admin"}, PhoneNumber : {OptSet("555")}]
CrudCreateTaskReqs ==
    [Title : {<<"a", "b">>}, Status : {"todo"}, Label : {"feature"},
     Priority : {"low"}, Assignee : {OptSet("ann")}, Description : {OptUnset},
     DueDate : {OptUnset}]

\* The value an update request carries for a field, when it carries one.
UserUpdateValue ==
    [FirstName |-> "Bob", LastName |-> "Ray", Email |-> <<"B", "@", "x">>,
     PhoneNumber |-> "777", Status |-> "suspended", Role |-> "manager"]
TaskUpdateValue ==
    [Title |-> <<"B">>, Status |-> "done", Label |-> "bug", Priority |-> "high",
     Assignee |-> "bob", Description |-> "text", DueDate |-> 7]

\* The sets of fields a request of SpecCrud sets.
UpdateShapes(fields) ==
    {{}, fields} \cup {{f} : f \in fields} \cup {fields \ {f} : f \in fields}

UpdateReqs(fields, value) ==
    {[f \in fields |-> IF f \in set THEN OptSet(value[f]) ELSE OptUnset] :
        set \in UpdateShapes(fields)}

CrudUpdateUserReqs == UpdateReqs(UserUpdateFields, UserUpdateValue)
CrudUpdateTaskReqs == UpdateReqs(TaskUpdateFields, TaskUpdateValue)

\* Updates applied to the rows stored now.
UpdatesDone ==
    Cardinality({<<k, i>> \in (DOMAIN users) \X (1..MaxUpdates) :
                    i <= users[k].UpdatedAt - users[k].CreatedAt})
    + Cardinality({<<k, i>> \in (DOMAIN tasks) \X (1..MaxUpdates) :
                    i <= tasks[k].UpdatedAt - tasks[k].CreatedAt})

NextCrud ==
    \/ \E req \in CrudCreateUserReqs : Idle /\ Inserted < MaxCrudRows /\ CreateUser(req)
    \/ \E req \in CrudCreateTaskReqs : Idle /\ Inserted < MaxCrudRows /\ CreateTask(req)
    \/ \E id \in UserIds(MaxCrudRows) : Idle /\ GetUser(id)
    \/ \E id \in TaskIds(MaxCrudRows) : Idle /\ GetTask(id)
    \/ \E id \in UserIds(MaxCrudRows), req \in CrudUpdateUserReqs :
           Idle /\ UpdatesDone < MaxUpdates /\ UpdateUser(id, req)
    \/ \E id \in TaskIds(MaxCrudRows), req \in CrudUpdateTaskReqs :
           Idle /\ UpdatesDone < MaxUpdates /\ UpdateTask(id, req)
    \/ \E id \in UserIds(MaxCrudRows) : Idle /\ DeleteUser(id)
    \/ \E id \in TaskIds(MaxCrudRows) : Idle /\ DeleteTask(id)
    \/ Ack

SpecCrud == Init /\ [][NextCrud]_vars

\* The columns of a row that no update request can carry and the store does
\* not maintain.
UserFixedColumns == {"ID", "Username", "Password", "CreatedAt"}
TaskFixedColumns == {"ID", "CreatedAt"}

\* The stored value of a field that a request set to v.
StoredAs(f, v) == IF f = "DueDate" THEN OptSet(v) ELSE v

\* C2: for every UpdateUser and UpdateTask request on an existing row, each
\* field that is absent from the request body has the same stored value after
\* the update as before it, and every other row is unchanged; only the fields
\* present in the request take the requested values.  (The fields are those
\* of the request body, and with them the columns no request carries: id,
\* username, password hash, creation time.  The update time of the row is
\* maintained by the store on every write and is not a field of the body.)
C2_PartialUpdate ==
    [][/\ \A id \in DOMAIN users, req \in CrudUpdateUserReqs :
            (Idle /\ resp' # None /\ resp'.op = "UpdateUser" /\ UpdateUser(id, req))
            => /\ DOMAIN users' = DOMAIN users
               /\ \A other \in DOMAIN users \ {id} : users'[other] = users[other]
               /\ tasks' = tasks
               /\ \A f \in UserUpdateFields :
                      ~IsSet(req[f]) => users'[id][f] = users[id][f]
               /\ \A f \in UserFixedColumns : users'[id][f] = users[id][f]
               /\ \A f \in UserUpdateFields :
                      users'[id][f] # users[id][f]
                          => IsSet(req[f]) /\ users'[id][f] = req[f][1]
               /\ resp'.err = NilError
                      => \A f \in UserUpdateFields :
                             IsSet(req[f]) => users'[id][f] = req[f][1]
       /\ \A id \in DOMAIN tasks, req \in CrudUpdateTaskReqs :
            (Idle /\ resp' # None /\ resp'.op = "UpdateTask" /\ UpdateTask(id, req))
            => /\ DOMAIN tasks' = DOMAIN tasks
               /\ \A other \in DOMAIN tasks \ {id} : tasks'[other] = tasks[other]
               /\ users' = users
               /\ \A f \in TaskUpdateFields :
                      ~IsSet(req[f]) => tasks'[id][f] = tasks[id][f]
               /\ \A f \in TaskFixedColumns : tasks'[id][f] = tasks[id][f]
               /\ \A f \in TaskUpdateFields :
                      IsSet(req[f]) => tasks'[id][f] = StoredAs(f, req[f][1])
               /\ resp'.err = NilError]_vars

\* An update that set one field of one of two tasks was answered: the field
\* holds the requested value, and a field the request left out holds the value
\* the task was created with.
C2_Witness ==
    /\ resp # None
    /\ resp.op = "UpdateTask"
    /\ resp.res.kind = "Task"
    /\ IsSet(resp.req.Status) /\ ~IsSet(resp.req.Title) /\ ~IsSet(resp.req.Assignee)
    /\ Cardinality(DOMAIN tasks) = 2
    /\ tasks[resp.taskId].Status = "done"
    /\ tasks[resp.taskId].Title = <<"a", "b">>
    /\ tasks[resp.taskId].Assignee = "ann"

\* C3: DeleteUser and DeleteTask on an identifier that matches no stored row
\* return the not-found result and leave the store unchanged; on an identifier
\* that matches a row they remove exactly that row and return no-content.
C3_Delete ==
    [][/\ \A id \in UserIds(MaxCrudRows) :
            DeleteUser(id)
            => /\ tasks' = tasks
               /\ id \notin DOMAIN users
                    => users' = users /\ resp'.res.kind = "DeleteUserNotFound"
               /\ id \in DOMAIN users
                    => /\ DOMAIN users' = DOMAIN users \ {id}
                       /\ \A other \in DOMAIN users' : users'[other] = users[other]
                       /\ resp'.res.kind = "DeleteUserNoContent"
               /\ resp'.err = NilError
       /\ \A id \in TaskIds(MaxCrudRows) :
            DeleteTask(id)
            => /\ users' = users
               /\ id \notin DOMAIN tasks
                    => tasks' = tasks /\ resp'.res.kind = "DeleteTaskNotFound"
               /\ id \in DOMAIN tasks
                    => /\ DOMAIN tasks' = DOMAIN tasks \ {id}
                       /\ \A other \in DOMAIN tasks' : tasks'[other] = tasks[other]
                       /\ resp'.res.kind = "DeleteTaskNoContent"
               /\ resp'.err = NilError]_vars

\* One of two users was deleted and the other one is still stored.
C3_Witness ==
    /\ resp # None
    /\ resp.op = "DeleteUser"
    /\ resp.res.kind = "DeleteUserNoContent"
    /\ resp.userId \notin DOMAIN users
    /\ userSeq = 2
    /\ Cardinality(DOMAIN users) = 1

\* A delete of an identifier that matches no row was refused while a row of
\* the table is stored.
C3_WitnessNotFound ==
    /\ resp # None
    /\ resp.op = "DeleteTask"
    /\ resp.res.kind = "DeleteTaskNotFound"
    /\ tasks # EmptyTable

\* C19: UpdateUser and UpdateTask on an identifier that matches no stored row
\* return the not-found result, perform no write and create no row, whatever
\* fields the request carries.
C19_UpdateMissing ==
    [][/\ \A id \in UserIds(MaxCrudRows), req \in CrudUpdateUserReqs :
            (/\ Idle /\ resp' # None /\ resp'.op = "UpdateUser"
             /\ \A k \in DOMAIN users : users[k].ID # id
             /\ UpdateUser(id, req))
            => /\ resp'.err = NilError
               /\ resp'.res = [kind |-> "UpdateUserNotFound"]
               /\ UNCHANGED storeVars
       /\ \A id \in TaskIds(MaxCrudRows), req \in CrudUpdateTaskReqs :
            (/\ Idle /\ resp' # None /\ resp'.op = "UpdateTask"
             /\ \A k \in DOMAIN tasks : tasks[k].ID # id
             /\ UpdateTask(id, req))
            => /\ resp'.err = NilError
               /\ resp'.res = [kind |-> "UpdateTaskNotFound"]
               /\ UNCHANGED storeVars]_vars

\* An update that set fields was answered not-found while another row of the
\* table is stored.
C19_Witness ==
    /\ resp # None
    /\ resp.op = "UpdateUser"
    /\ resp.res.kind = "UpdateUserNotFound"
    /\ updatesOf(resp.req) # <<>>
    /\ users # EmptyTable
    /\ resp.userId \notin DOMAIN users

\* The same for a task.
C19_WitnessTask ==
    /\ resp # None
    /\ resp.op = "UpdateTask"
    /\ resp.res.kind = "UpdateTaskNotFound"
    /\ tasks # EmptyTable
    /\ resp.taskId \notin DOMAIN tasks

\* Another user than id holds the email the request sets.
EmailHeldByOther(id, req) ==
    /\ IsSet(req.Email)
    /\ \E k \in DOMAIN users \ {id} : users[k].Email = req.Email[1]

\* C30: UpdateUser that sets the email to one held by a different user fails,
\* leaves the rows of both users unchanged, and returns a wrapped storage error
\* that the error mapper resolves to INTERNAL_ERROR (500), not to the
\* DUPLICATE_EMAIL (409) entry that CreateUser gets for the same condition.
C30_UpdateDuplicateEmail ==
    [][/\ \A id \in DOMAIN users, req \in CrudUpdateUserReqs :
             (Idle /\ EmailHeldByOther(id, req) /\ UpdateUser(id, req)) =>
                 /\ users' = users
                 /\ resp'.res = NoResult
                 /\ resp'.err # NilError
                 /\ resp'.err[1] = WrapError
                 /\ isDuplicateKeyError(resp'.err)
                 /\ mapServiceError(resp'.err) = Errors.InternalError
                 /\ mapServiceError(resp'.err).Code = "INTERNAL_ERROR"
                 /\ mapServiceError(resp'.err).HTTPStatus = 500
                 /\ mapServiceError(resp'.err) # Errors.DuplicateEmail
       /\ \A req \in CrudCreateUserReqs :
             (Idle /\ (\E k \in DOMAIN users : users[k].Email = req.Email) /\ CreateUser(req)) =>
                 /\ users' = users
                 /\ resp'.res = NoResult
                 /\ mapServiceError(resp'.err) = Errors.DuplicateEmail
                 /\ mapServiceError(resp'.err).Code = "DUPLICATE_EMAIL"
                 /\ mapServiceError(resp'.err).HTTPStatus = 409]_vars

\* An update of one user to the email of the other was refused with both
\* users stored as they were created.
C30_Witness ==
    /\ resp # None
    /\ resp.op = "UpdateUser"
    /\ resp.err = Errorf(<<PgUniqueViolation>>)
    /\ resp.userId \in DOMAIN users
    /\ \E k \in DOMAIN users \ {resp.userId} : users[k].Email = resp.req.Email[1]
    /\ \A k \in DOMAIN users : users[k].UpdatedAt = users[k].CreatedAt
    /\ users[resp.userId].Email # resp.req.Email[1]

\* A create with the email of a stored user was refused.
C30_WitnessCreate ==
    /\ resp # None
    /\ resp.op = "CreateUser"
    /\ ErrorsIs(resp.err, ErrDuplicateEmail)
    /\ \E k \in DOMAIN users : users[k].Email = resp.req.Email

(***************************************************************************)
(* SpecAuth: users are created, invited and deleted, and log in with the   *)
(* password set at creation, the one set at invitation, or another one.    *)
(***************************************************************************)
AuthPasswords == {"changeme123", "invited123", "wrong"}
\* Two of the addresses have the same local part.
AuthEmails == Emails \cup {<<"c", "@", "y">>}

AuthCreateUserReqs ==
    [FirstName : {"Ann"}, LastName : {"Lee"}, Email : AuthEmails,
     Role : {"admin"}, PhoneNumber : {OptUnset}]
AuthInviteUserReqs == [Email : AuthEmails, Role : {"cashier"}]
AuthLoginReqs == [Email : AuthEmails, Password : AuthPasswords]

NextAuth ==
    \/ \E req \in AuthCreateUserReqs : userSeq < MaxAuthRows /\ CreateUser(req)
    \/ \E req \in AuthInviteUserReqs : userSeq < MaxAuthRows /\ InviteUser(req)
    \/ \E id \in UserIds(MaxAuthRows) : DeleteUser(id)
    \/ \E req \in AuthLoginReqs : Login(req)
    \/ Logout
    \/ GetCurrentUser

SpecAuth == Init /\ [][NextAuth]_vars

\* The request names a stored user and a password that is not the user's.
WrongPassword(req) ==
    \E k \in DOMAIN users :
        /\ users[k].Email = req.Email
        /\ ~CompareHashAndPassword(users[k].Password, req.Password)

\* C6: Login with the email of an existing user and a password that does not
\* match the stored hash yields a 401 response that carries the
\* invalid-credentials code, issues no access token, and changes no stored
\* state.
C6_WrongPasswordCode ==
    [][\A req \in AuthLoginReqs :
          (WrongPassword(req) /\ Login(req))
          => /\ resp'.status = 401
             /\ resp'.res.kind = "ErrorResponse"
             /\ resp'.res.Code = Errors.InvalidCredentials.Code
             /\ resp'.res.AccessToken = OptUnset
             /\ UNCHANGED storeVars]_vars

\* What the handler does answer to a wrong password: 401, the text of the
\* invalid-credentials sentinel as the message, an empty code, no token, and
\* the store as it was.
C6_WrongPasswordRefused ==
    [][\A req \in AuthLoginReqs :
          (WrongPassword(req) /\ Login(req))
          => /\ resp'.status = 401
             /\ resp'.res.kind = "ErrorResponse"
             /\ resp'.res.Message = ErrInvalidCredentials
             /\ resp'.res.Code = ""
             /\ resp'.res.AccessToken = OptUnset
             /\ UNCHANGED storeVars]_vars

\* A stored user holds the email of the request or the username derived from it.
Taken(email) == UserUniqueViolated(SplitFirst(email), email, 0)

DuplicateSignalled ==
    /\ users' = users
    /\ userSeq' = userSeq
    /\ resp'.res = NoResult
    /\ resp'.err # NilError
    /\ \E S \in DuplicateSentinels : ErrorsIs(resp'.err, S)
    /\ mapServiceError(resp'.err) \in {Errors.DuplicateEmail, Errors.DuplicateUsername}
    /\ mapServiceError(resp'.err).HTTPStatus = 409
    /\ mapServiceError(resp'.err) # Errors.InternalError

\* C14: CreateUser and InviteUser that hit a uniqueness-constraint violation
\* (the email or the derived username is already held by a stored user) signal
\* a domain-specific duplicate error that the error mapper resolves to a 409
\* duplicate entry, distinct from the generic internal error, and store no new
\* user.
C14_DuplicateIsConflict ==
    [][/\ \A req \in AuthCreateUserReqs :
            (Taken(req.Email) /\ CreateUser(req)) => DuplicateSignalled
       /\ \A req \in AuthInviteUserReqs :
            (Taken(req.Email) /\ InviteUser(req)) => DuplicateSignalled]_vars

\* An invitation was refused because its username is held by a user with
\* another email.
C14_Witness ==
    /\ resp # None
    /\ resp.op = "InviteUser"
    /\ ErrorsIs(resp.err, ErrDuplicateEmail)
    /\ \A k \in DOMAIN users : users[k].Email # resp.req.Email
    /\ \E k \in DOMAIN users : users[k].Username = SplitFirst(resp.req.Email)

\* C16: after any sequence of operations, a successful Login included,
\* GetCurrentUser returns the unauthorized result and Logout succeeds; the
\* answers are the same whatever is stored, and nothing stored changes.
C16_AuthStubs ==
    [][/\ (resp' # None /\ resp'.op = "GetCurrentUser") =>
            /\ resp' = [op |-> "GetCurrentUser", err |-> NilError,
                        res |-> [kind |-> "GetCurrentUserUnauthorized"]]
            /\ UNCHANGED storeVars
       /\ (resp' # None /\ resp'.op = "Logout") =>
            /\ resp' = [op |-> "Logout", err |-> NilError, res |-> NoResult]
            /\ UNCHANGED storeVars]_vars

\* GetCurrentUser has answered while a user is stored whose password Login
\* accepts.
C16_Witness ==
    /\ resp # None
    /\ resp.op = "GetCurrentUser"
    /\ resp.res.kind = "GetCurrentUserUnauthorized"
    /\ \E k \in DOMAIN users, pw \in AuthPasswords :
           CompareHashAndPassword(users[k].Password, pw)

\* The request names an email that no stored user has.
UnknownEmail(req) == \A k \in DOMAIN users : users[k].Email # req.Email

\* C27: Login with an email that no user has and Login with an existing email
\* but a wrong password produce the identical response (same status, same
\* body, no token), and neither changes stored state.
C27_LoginRefusalsAlike ==
    [][/\ \A r1, r2 \in AuthLoginReqs :
             (UnknownEmail(r1) /\ WrongPassword(r2)) =>
                 /\ LoginRes(r1) = LoginRes(r2)
                 /\ LoginStatus(LoginRes(r1)) = LoginStatus(LoginRes(r2))
                 /\ LoginRes(r1).AccessToken = OptUnset
                 /\ LoginRes(r1).kind # "LoginResponse"
       /\ \A req \in AuthLoginReqs :
             (resp' # None /\ resp'.op = "Login" /\ Login(req)
                 /\ (UnknownEmail(req) \/ WrongPassword(req))) =>
                 /\ resp'.res = LoginRes(req)
                 /\ resp'.status = LoginStatus(LoginRes(req))
                 /\ resp'.status # 200
                 /\ UNCHANGED storeVars]_vars

\* A login with a wrong password was refused while another address of the
\* requests is not registered.
C27_Witness ==
    /\ resp # None
    /\ resp.op = "Login"
    /\ WrongPassword(resp.req)
    /\ resp.res.kind = "ErrorResponse"
    /\ \E req \in AuthLoginReqs : UnknownEmail(req)

(***************************************************************************)
(* SpecTaskID: the hook that assigns the ID of a new task, on a tasks      *)
(* table of any size up to MaxRowCount.  rowCount is what the hook's count *)
(* query returns; the rows themselves are not built.                       *)
(***************************************************************************)
InitTaskID ==
    /\ InitStore
    /\ resp = None
    /\ pc = <<>>
    /\ loc = <<>>
    /\ ctxErr = NilError
    /\ hideErrorDetails = FALSE
    /\ errIn = NilError
    /\ httpResp = None
    /\ rowCount \in 0..MaxRowCount
    /\ newID = <<>>
    /\ InitWiring

\* db.Create(task) of a task without an ID runs Task.BeforeCreate.
AssignTaskID ==
    /\ newID = <<>>
    /\ newID' = <<BeforeCreate(<<>>, rowCount)>>
    /\ UNCHANGED <<storeVars, resp, procVars, errVars, rowCount, wiringVars>>

NextTaskID == AssignTaskID

SpecTaskID == InitTaskID /\ [][NextTaskID]_vars

DigitValue(c) == CHOOSE d \in 0..9 : Digits[d + 1] = c

\* The number a string of decimal digits denotes.
RECURSIVE DecimalValue(_)
DecimalValue(s) ==
    IF s = <<>> THEN 0
    ELSE DecimalValue(SubSeq(s, 1, Len(s) - 1)) * 10 + DigitValue(s[Len(s)])

IDSuffix(id) == SubSeq(id, Len(TaskPrefix) + 1, Len(id))

\* C4: for every n >= 0, CreateTask without a supplied ID on a store that
\* holds n tasks assigns the ID "TASK-" followed by the sequence number n+1
\* zero-padded to four digits, so the numeric suffix of the assigned ID equals
\* n+1.
C4_SuffixIsCountPlusOne ==
    newID # <<>> =>
        /\ SubSeq(newID[1], 1, Len(TaskPrefix)) = TaskPrefix
        /\ Len(IDSuffix(newID[1])) >= TaskIDWidth
        /\ DecimalValue(IDSuffix(newID[1])) = rowCount + 1

\* What the hook does assign: the last four digits of n+1.
C4_SuffixIsLastFourDigits ==
    newID # <<>> =>
        /\ SubSeq(newID[1], 1, Len(TaskPrefix)) = TaskPrefix
        /\ Len(IDSuffix(newID[1])) = TaskIDWidth
        /\ DecimalValue(IDSuffix(newID[1])) = (rowCount + 1) % 10000

(***************************************************************************)
(* SpecRace: two requests create tasks concurrently.  db.Create runs the   *)
(* BeforeCreate hook, whose count query is one statement, and then the     *)
(* INSERT, another statement; statements of the two requests interleave.   *)
(***************************************************************************)
Procs == {"r1", "r2"}

RaceCreateTaskReqs ==
    [Title : {<<"a", "b">>, <<"B">>}, Status : {"todo"}, Label : {"feature"},
     Priority : {"low"}, Assignee : {OptUnset}, Description : {OptUnset},
     DueDate : {OptUnset}]

InitRace ==
    /\ InitStore
    /\ resp = None
    /\ pc = [p \in Procs |-> "idle"]
    /\ loc = [p \in Procs |-> <<>>]
    /\ ctxErr = NilError
    /\ hideErrorDetails = FALSE
    /\ errIn = NilError
    /\ httpResp = None
    /\ rowCount = 0
    /\ newID = <<>>
    /\ InitWiring

\* CreateTask up to the end of the hook: the task is built from the request,
\* the rows are counted and the ID is set.
CreateTaskHook(p, req) ==
    IF ctxErr # NilError THEN Aborted("CreateTask")
    ELSE
        /\ pc[p] = "idle"
        /\ LET count == CountTasks
               id == BeforeCreate(NewTask(req).ID, count)
           IN  loc' = [loc EXCEPT ![p] = <<[count |-> count,
                                            task |-> [NewTask(req) EXCEPT !.ID = id]]>>]
        /\ pc' = [pc EXCEPT ![p] = "insert"]
        /\ UNCHANGED <<storeVars, resp, ctxErr, errVars, idVars, wiringVars>>

\* CreateTask from the INSERT on: the row is stored, or the primary key is
\* taken and the handler returns the wrapped error.
CreateTaskInsert(p) ==
    /\ pc[p] = "insert"
    /\ LET task == [loc[p][1].task EXCEPT !.CreatedAt = taskSeq + 1,
                                          !.UpdatedAt = taskSeq + 1]
       IN  IF HasRow(tasks, task.ID)
           THEN /\ resp' = [op |-> "CreateTask", proc |-> p,
                            err |-> Errorf(<<PgUniqueViolation>>), res |-> NoResult]
                /\ UNCHANGED <<tasks, taskSeq>>
           ELSE /\ tasks' = InsertRow(tasks, task.ID, task)
                /\ taskSeq' = taskSeq + 1
                /\ resp' = [op |-> "CreateTask", proc |-> p, err |-> NilError,
                            res |-> [kind |-> "Task", body |-> taskToAPI(task)]]
    /\ pc' = [pc EXCEPT ![p] = "idle"]
    /\ loc' = [loc EXCEPT ![p] = <<>>]
    /\ UNCHANGED <<users, userSeq, apps, conversations, messages, ctxErr, errVars, idVars, wiringVars>>

NextRace ==
    \/ \E p \in Procs, req \in RaceCreateTaskReqs :
           taskSeq < MaxRaceRows /\ CreateTaskHook(p, req)
    \/ \E p \in Procs : CreateTaskInsert(p)
    \/ \E id \in TaskIds(MaxRaceRows) : DeleteTask(id)

SpecRace == InitRace /\ [][NextRace]_vars

InFlight == {p \in DOMAIN pc : pc[p] = "insert"}

\* C5: task ID generation is not atomic: there is an interleaving of two
\* concurrent CreateTask calls in which both read the same row count before
\* either inserts, so both generate the same task ID.  Two calls between
\* their count and their insert that read the same count hold the same ID
\* (the ID of that count plus one), and the witness is such an interleaving.
C5_SameCountSameID ==
    \A p \in InFlight, q \in InFlight :
        /\ loc[p][1].task.ID = generateTaskID(loc[p][1].count + 1)
        /\ loc[p][1].count = loc[q][1].count => loc[p][1].task.ID = loc[q][1].task.ID

\* Both calls have counted the rows of the same table and neither has
\* inserted: they hold one ID for two tasks.
C5_Witness ==
    /\ InFlight = Procs
    /\ loc["r1"][1].count = loc["r2"][1].count
    /\ loc["r1"][1].task.ID = loc["r2"][1].task.ID
    /\ loc["r1"][1].task.Title # loc["r2"][1].task.Title
    /\ loc["r1"][1].task.ID \notin DOMAIN tasks

\* C26: in every reachable state, under any interleaving of CreateTask calls,
\* no two stored tasks share an ID: a CreateTask whose generated ID is already
\* stored fails with an unclassified error (resolved to INTERNAL_ERROR, 500),
\* returns no task, and leaves the store unchanged.
C26_TaskIDsUnique ==
    [][/\ \A k1, k2 \in DOMAIN tasks' : k1 # k2 => tasks'[k1].ID # tasks'[k2].ID
       /\ \A k \in DOMAIN tasks' : tasks'[k].ID = k
       /\ \A p \in Procs :
             (pc[p] = "insert" /\ CreateTaskInsert(p)) =>
                 IF \E k \in DOMAIN tasks : tasks[k].ID = loc[p][1].task.ID
                 THEN /\ resp'.err # NilError
                      /\ \A e \in Sentinels : ~ErrorsIs(resp'.err, e)
                      /\ mapServiceError(resp'.err) = Errors.InternalError
                      /\ mapServiceError(resp'.err).Code = "INTERNAL_ERROR"
                      /\ mapServiceError(resp'.err).HTTPStatus = 500
                      /\ resp'.res = NoResult
                      /\ UNCHANGED storeVars
                 ELSE /\ resp'.err = NilError
                      /\ Cardinality(DOMAIN tasks') = Cardinality(DOMAIN tasks) + 1]_vars

\* Two calls counted the rows of the empty table; one has inserted TASK-0001
\* and the other was refused.
C26_Witness ==
    /\ resp # None
    /\ resp.op = "CreateTask"
    /\ resp.err # NilError
    /\ mapServiceError(resp.err) = Errors.InternalError
    /\ taskSeq = 1
    /\ DOMAIN tasks = {generateTaskID(1)}
    /\ \A p \in Procs : pc[p] = "idle"

(***************************************************************************)
(* SpecCtx: every operation of the service, called one at a time, under a  *)
(* request context that is live until it is cancelled or its deadline      *)
(* passes.  Two apps and one conversation are registered.                  *)
(***************************************************************************)
CtxErrs == {<<Canceled>>, <<DeadlineExceeded>>}

InitCtx ==
    /\ users = EmptyTable
    /\ userSeq = 0
    /\ tasks = EmptyTable
    /\ taskSeq = 0
    /\ apps = [id \in {"slack", "zoom"} |-> AppRow(id, "logo.png", id = "zoom")]
    /\ conversations = [id \in {"c1"} |-> ChatRow(id, "Dr", "")]
    /\ messages = <<>>
    /\ InitRest

\* The context is done from here on: ctx.Err() is e.
CancelContext(e) ==
    /\ ctxErr = NilError
    /\ ctxErr' = e
    /\ UNCHANGED <<storeVars, resp, pc, loc, errVars, idVars, wiringVars>>

CtxCreateUserReqs ==
    [FirstName : {"Ann"}, LastName : {"Lee"}, Email : {<<"c", "@", "x">>},
     Role : {"admin"}, PhoneNumber : {OptUnset}]
CtxInviteUserReqs == [Email : {<<"B", "@", "x">>}, Role : {"cashier"}]
CtxCreateTaskReqs ==
    [Title : {<<"a", "b">>}, Status : {"todo"}, Label : {"feature"},
     Priority : {"low"}, Assignee : {OptUnset}, Description : {OptUnset},
     DueDate : {OptUnset}]
CtxUpdateUserReqs == {r \in CrudUpdateUserReqs : IsSet(r.Status) /\ ~IsSet(r.FirstName)}
CtxUpdateTaskReqs == {r \in CrudUpdateTaskReqs : IsSet(r.Status) /\ ~IsSet(r.Title)}
CtxListUsersParams ==
    [Page : {OptUnset}, PageSize : {OptUnset}, Status : {{}}, Role : {{}},
     Username : {OptUnset, OptSet(<<"c">>)}]
CtxListTasksParams ==
    [Page : {OptUnset}, PageSize : {OptUnset}, Status : {{}}, Priority : {{}},
     Filter : {OptUnset, OptSet(<<"a">>)}]
CtxListAppsParams ==
    [Type : {OptUnset, OptSet("connected"), OptSet("notConnected"), OptSet("all")},
     Filter : {OptUnset, OptSet(<<"s">>)},
     Sort : {OptUnset, OptSet("asc"), OptSet("desc")}]
CtxListChatsParams == [Search : {OptUnset, OptSet(<<"b">>), OptSet(<<"z">>)}]
CtxLoginReqs == [Email : {<<"c", "@", "x">>}, Password : {"changeme123", "wrong"}]

NextCtx ==
    \/ \E e \in CtxErrs : Idle /\ CancelContext(e)
    \/ \E req \in CtxLoginReqs : Idle /\ Login(req)
    \/ Idle /\ Logout
    \/ Idle /\ GetCurrentUser
    \/ \E params \in CtxListUsersParams : Idle /\ ListUsers(params)
    \/ \E req \in CtxCreateUserReqs : Idle /\ Inserted < MaxCtxRows /\ CreateUser(req)
    \/ \E req \in CtxInviteUserReqs : Idle /\ Inserted < MaxCtxRows /\ InviteUser(req)
    \/ \E id \in UserIds(MaxCtxRows) : Idle /\ GetUser(id)
    \/ \E id \in UserIds(MaxCtxRows), req \in CtxUpdateUserReqs :
           Idle /\ UpdatesDone < MaxUpdates /\ UpdateUser(id, req)
    \/ \E id \in UserIds(MaxCtxRows) : Idle /\ DeleteUser(id)
    \/ \E params \in CtxListTasksParams : Idle /\ ListTasks(params)
    \/ \E req \in CtxCreateTaskReqs : Idle /\ Inserted < MaxCtxRows /\ CreateTask(req)
    \/ \E id \in TaskIds(MaxCtxRows) : Idle /\ GetTask(id)
    \/ \E id \in TaskIds(MaxCtxRows), req \in CtxUpdateTaskReqs :
           Idle /\ UpdatesDone < MaxUpdates /\ UpdateTask(id, req)
    \/ \E id \in TaskIds(MaxCtxRows) : Idle /\ DeleteTask(id)
    \/ \E params \in CtxListAppsParams : Idle /\ ListApps(params)
    \/ \E id \in {"slack", MissingAppId} : Idle /\ AppWritable(id) /\ ConnectApp(id)
    \/ \E id \in {"zoom", MissingAppId} : Idle /\ AppWritable(id) /\ DisconnectApp(id)
    \/ \E params \in CtxListChatsParams : Idle /\ ListChats(params)
    \/ \E id \in {"c1", MissingChatId} : Idle /\ GetChat(id)
    \/ \E id \in {"c1", MissingChatId} : Idle /\ SendMessage(id, "hi")
    \/ Idle /\ GetDashboardStats
    \/ Idle /\ GetDashboardOverview
    \/ Idle /\ GetRecentSales
    \/ Ack

SpecCtx == InitCtx /\ [][NextCtx]_vars

\* A call is answered under a context that was done when it was made.
AnsweredWhenDone == ctxErr # NilError /\ resp = None /\ resp' # None

\* C13: every service operation (auth, user, task, app, chat, dashboard), when
\* invoked with a request context that is already cancelled at entry, returns
\* the context's cancellation error immediately, issues no store read or
\* write, and returns no success result.
C13_CancelledAtEntry ==
    [][AnsweredWhenDone
       => /\ resp'.err = ctxErr
          /\ resp'.res = NoResult
          /\ UNCHANGED storeVars]_vars

\* What the code does: every operation but Logout and GetCurrentUser returns
\* ctx.Err() at its head; those two have no such head and answer as they
\* always do.  None of them touches the store.
C13_AllButAuthStubs ==
    [][AnsweredWhenDone
       => /\ UNCHANGED storeVars
          /\ resp'.op \notin {"Logout", "GetCurrentUser"}
                => resp'.err = ctxErr /\ resp'.res = NoResult
          /\ resp'.op = "Logout" => resp'.err = NilError
          /\ resp'.op = "GetCurrentUser"
                => resp'.err = NilError /\ resp'.res.kind = "GetCurrentUserUnauthorized"]_vars

\* C28: in every state reachable through the API operations, each stored chat
\* message references a conversation that is stored; SendMessage is the only
\* operation that adds a message and no operation removes a conversation.
C28_MessagesHaveConversation ==
    [][/\ \A i \in 1..Len(messages') :
             \E k \in DOMAIN conversations' : conversations'[k].ID = messages'[i].ChatID
       /\ messages' # messages =>
             /\ resp' # None
             /\ resp'.op = "SendMessage"
             /\ resp'.err = NilError
             /\ Len(messages') = Len(messages) + 1
             /\ SubSeq(messages', 1, Len(messages)) = messages
       /\ DOMAIN conversations \subseteq DOMAIN conversations'
       /\ conversations' = conversations]_vars

\* A message was stored for the conversation, and a send to a conversation
\* that does not exist was refused after it.
C28_Witness ==
    /\ resp # None
    /\ resp.op = "SendMessage"
    /\ ErrorsIs(resp.err, ErrChatNotFound)
    /\ resp.chatId \notin DOMAIN conversations
    /\ Len(messages) >= 1
    /\ messages[1].ChatID \in DOMAIN conversations

(***************************************************************************)
(* UpdateUser and UpdateTask statement by statement, for requests that run *)
(* concurrently: the load (First), the write (Updates), the reload (First) *)
(* and the return.  pc[p] is the statement request p runs next; loc[p]     *)
(* holds its operation, identifier, request and the row it loaded.         *)
(***************************************************************************)
\* (An UPDATE that also requires the row to be as it was loaded.)
UpdateWhereUnchanged(loaded, row) == row.ID = loaded.ID /\ row.UpdatedAt = loaded.UpdatedAt

\* The WHERE clause of db.Model(&row).Updates(...): the primary key of the
\* loaded model.
UpdateWhere(loaded, row) == row.ID = loaded.ID

\* UPDATE table SET updates WHERE the clause above.
UpdateLoaded(table, loaded, updates) ==
    [k \in DOMAIN table |->
        IF UpdateWhere(loaded, table[k]) THEN setColumns(table[k], updates) ELSE table[k]]

Running(p, op, at) == pc[p] = at /\ loc[p] # <<>> /\ loc[p][1].op = op

Return(p, response) ==
    /\ resp' = response
    /\ pc' = [pc EXCEPT ![p] = "idle"]
    /\ loc' = [loc EXCEPT ![p] = <<>>]

Goto(p, at) ==
    /\ pc' = [pc EXCEPT ![p] = at]
    /\ UNCHANGED <<loc, resp>>

UpdateUserLoad(p, userId, req) ==
    /\ pc[p] = "idle"
    /\ IF ctxErr # NilError
       THEN /\ resp' = [op |-> "UpdateUser", err |-> ctxErr, res |-> NoResult]
            /\ UNCHANGED <<pc, loc>>
       ELSE IF FirstError(users, userId) # NilError
       THEN LET err == FirstError(users, userId)
                notFound == ErrorsIs(err, ErrRecordNotFound)
            IN  /\ resp' = [op |-> "UpdateUser", proc |-> p, userId |-> userId, req |-> req,
                            err |-> IF notFound THEN NilError ELSE Errorf(err),
                            res |-> IF notFound THEN [kind |-> "UpdateUserNotFound"] ELSE NoResult]
                /\ UNCHANGED <<pc, loc>>
       ELSE /\ loc' = [loc EXCEPT ![p] = <<[op |-> "UpdateUser", id |-> userId, req |-> req,
                                            loaded |-> users[userId]]>>]
            /\ pc' = [pc EXCEPT ![p] = "write"]
            /\ UNCHANGED resp
    /\ UNCHANGED <<storeVars, ctxErr, errVars, idVars, wiringVars>>

UpdateUserWrite(p) ==
    /\ Running(p, "UpdateUser", "write")
    /\ LET call == loc[p][1]
           updates == updatesOf(call.req)
       IN  IF DOMAIN updates = {}
           THEN Goto(p, "reload") /\ UNCHANGED users
           ELSE IF /\ "Email" \in DOMAIN updates
                   /\ HasRow(users, call.id)
                   /\ \E k \in DOMAIN users \ {call.id} : users[k].Email = updates.Email
           THEN /\ Return(p, [op |-> "UpdateUser", proc |-> p, userId |-> call.id,
                              req |-> call.req, err |-> updateUserError(<<PgUniqueViolation>>),
                              res |-> NoResult])
                /\ UNCHANGED users
           ELSE /\ users' = UpdateLoaded(users, call.loaded, updates)
                /\ Goto(p, "reload")
    /\ UNCHANGED <<userSeq, tasks, taskSeq, apps, conversations, messages>>
    /\ UNCHANGED <<ctxErr, errVars, idVars, wiringVars>>

UpdateUserReload(p) ==
    /\ Running(p, "UpdateUser", "reload")
    /\ LET call == loc[p][1]
       IN  Return(p, [op |-> "UpdateUser", proc |-> p, userId |-> call.id, req |-> call.req,
                      err |-> IF HasRow(users, call.id) THEN NilError
                              ELSE Errorf(<<ErrRecordNotFound>>),
                      res |-> IF HasRow(users, call.id)
                              THEN [kind |-> "User", body |-> userToAPI(users[call.id])]
                              ELSE NoResult])
    /\ UNCHANGED <<storeVars, ctxErr, errVars, idVars, wiringVars>>

UpdateTaskLoad(p, taskId, req) ==
    /\ pc[p] = "idle"
    /\ IF ctxErr # NilError
       THEN /\ resp' = [op |-> "UpdateTask", err |-> ctxErr, res |-> NoResult]
            /\ UNCHANGED <<pc, loc>>
       ELSE IF FirstError(tasks, taskId) # NilError
       THEN LET err == FirstError(tasks, taskId)
                notFound == ErrorsIs(err, ErrRecordNotFound)
            IN  /\ resp' = [op |-> "UpdateTask", proc |-> p, taskId |-> taskId, req |-> req,
                            err |-> IF notFound THEN NilError ELSE Errorf(err),
                            res |-> IF notFound THEN [kind |-> "UpdateTaskNotFound"] ELSE NoResult]
                /\ UNCHANGED <<pc, loc>>
       ELSE /\ loc' = [loc EXCEPT ![p] = <<[op |-> "UpdateTask", id |-> taskId, req |-> req,
                                            loaded |-> tasks[taskId]]>>]
            /\ pc' = [pc EXCEPT ![p] = "write"]
            /\ UNCHANGED resp
    /\ UNCHANGED <<storeVars, ctxErr, errVars, idVars, wiringVars>>

UpdateTaskWrite(p) ==
    /\ Running(p, "UpdateTask", "write")
    /\ LET call == loc[p][1]
           set == updatesOf(call.req)
           updates == [f \in DOMAIN set |-> IF f = "DueDate" THEN OptSet(set[f]) ELSE set[f]]
       IN  /\ tasks' = IF DOMAIN updates = {} THEN tasks
                       ELSE UpdateLoaded(tasks, call.loaded, updates)
           /\ Goto(p, "reload")
    /\ UNCHANGED <<taskSeq, users, userSeq, apps, conversations, messages>>
    /\ UNCHANGED <<ctxErr, errVars, idVars, wiringVars>>

UpdateTaskReload(p) ==
    /\ Running(p, "UpdateTask", "reload")
    /\ LET call == loc[p][1]
       IN  Return(p, [op |-> "UpdateTask", proc |-> p, taskId |-> call.id, req |-> call.req,
                      err |-> IF HasRow(tasks, call.id) THEN NilError
                              ELSE Errorf(<<ErrRecordNotFound>>),
                      res |-> IF HasRow(tasks, call.id)
                              THEN [kind |-> "Task", body |-> taskToAPI(tasks[call.id])]
                              ELSE NoResult])
    /\ UNCHANGED <<storeVars, ctxErr, errVars, idVars, wiringVars>>

\* Writes the stored rows have received since they were inserted.
WritesDone ==
    Cardinality({<<k, i>> \in (DOMAIN users) \X (1..MaxRaceUpdates) :
                    i <= users[k].UpdatedAt - users[k].CreatedAt})
    + Cardinality({<<k, i>> \in (DOMAIN tasks) \X (1..MaxRaceUpdates) :
                    i <= tasks[k].UpdatedAt - tasks[k].CreatedAt})

\* Updates in flight that have not written yet.
ToWrite == Cardinality({p \in DOMAIN pc : pc[p] = "write"})

(***************************************************************************)
(* SpecUserRace: users are created, invited and deleted (one statement     *)
(* each) while two requests update users statement by statement.           *)
(***************************************************************************)
RaceCreateUserReqs ==
    [FirstName : {"Ann"}, LastName : {"Lee"},
     Email : {<<"a", "b", "@", "x">>, <<"B", "@", "x">>},
     Role : {"admin"}, PhoneNumber : {OptUnset}]
RaceInviteUserReqs == [Email : {<<"a", "b", "@", "y">>}, Role : {"cashier"}]

NoUserUpdate == [f \in UserUpdateFields |-> OptUnset]
RaceUpdateUserReqs ==
    {[NoUserUpdate EXCEPT !.Email = OptSet(<<"B", "@", "x">>)],
     [NoUserUpdate EXCEPT !.Email = OptSet(<<"a", "b", "@", "y">>), !.Status = OptSet("suspended")]}

NextUserRace ==
    \/ \E req \in RaceCreateUserReqs : Idle /\ userSeq < MaxUserRaceRows /\ CreateUser(req)
    \/ \E req \in RaceInviteUserReqs : Idle /\ userSeq < MaxUserRaceRows /\ InviteUser(req)
    \/ \E id \in UserIds(MaxUserRaceRows) : Idle /\ DeleteUser(id)
    \/ \E p \in Procs, id \in UserIds(MaxUserRaceRows), req \in RaceUpdateUserReqs :
           Idle /\ WritesDone + ToWrite < MaxRaceUpdates /\ UpdateUserLoad(p, id, req)
    \/ \E p \in Procs : Idle /\ UpdateUserWrite(p)
    \/ \E p \in Procs : Idle /\ UpdateUserReload(p)
    \/ Ack

SpecUserRace == InitRace /\ [][NextUserRace]_vars

\* C15: in every state reachable by any sequence or interleaving of
\* CreateUser, InviteUser, UpdateUser and DeleteUser, no two stored users share
\* a username and no two stored users share an email.
C15_UniqueUsers ==
    \A k1, k2 \in DOMAIN users :
        k1 # k2 => /\ users[k1].Username # users[k2].Username
                   /\ users[k1].Email # users[k2].Email

\* An update that would have given two users one email was refused at its
\* write, after the other user took that email while the update was in flight.
C15_Witness ==
    /\ resp # None
    /\ resp.op = "UpdateUser"
    /\ isDuplicateKeyError(resp.err)
    /\ Cardinality(DOMAIN users) = 2
    /\ \E k \in DOMAIN users : k # resp.userId /\ users[k].Email = resp.req.Email[1]
                               /\ users[k].UpdatedAt > users[k].CreatedAt

(***************************************************************************)
(* SpecCreate: users are created from requests that differ in every field  *)
(* the handler copies, and deleted.  One address holds two "@", two share  *)
(* their local part.                                                       *)
(***************************************************************************)
CreateEmails == {<<"a", "b", "@", "x">>, <<"a", "@", "b", "@", "x">>, <<"a", "b", "@", "y">>}
CreateUserReqs ==
    [FirstName : {"Ann", "Bo"}, LastName : {"Lee"}, Email : CreateEmails,
     Role : {"admin", "manager"}, PhoneNumber : {OptUnset, OptSet("555")}]

NextCreate ==
    \/ \E req \in CreateUserReqs : Idle /\ userSeq < MaxCreateRows /\ CreateUser(req)
    \/ \E id \in UserIds(MaxCreateRows) : Idle /\ DeleteUser(id)
    \/ Ack

SpecCreate == Init /\ [][NextCreate]_vars

\* name is what stands in email before its first "@" (all of email when it
\* holds none).
BeforeFirstAt(name, email) ==
    /\ \A i \in 1..Len(name) : name[i] # "@"
    /\ \/ name = email
       \/ /\ Len(name) < Len(email)
          /\ name = SubSeq(email, 1, Len(name))
          /\ email[Len(name) + 1] = "@"

CreatedAs(u, req) ==
    /\ BeforeFirstAt(u.Username, req.Email)
    /\ u.Status = "active"
    /\ u.FirstName = req.FirstName
    /\ u.LastName = req.LastName
    /\ u.Email = req.Email
    /\ u.Role = req.Role

\* C17: a successful CreateUser stores and returns a user whose username is
\* the part of the request email before the first "@", whose status is active,
\* and whose first name, last name, email and role are the request's.
C17_CreatedUser ==
    [][\A req \in CreateUserReqs :
          (Idle /\ resp' # None /\ resp'.err = NilError /\ CreateUser(req)) =>
              /\ resp'.res.kind = "User"
              /\ CreatedAs(resp'.res.body, req)
              /\ \E id \in DOMAIN users' \ DOMAIN users :
                     /\ DOMAIN users' = DOMAIN users \cup {id}
                     /\ resp'.res.body.ID = id
                     /\ CreatedAs(users'[id], req)
                     /\ \A k \in DOMAIN users : users'[k] = users[k]]_vars

\* A user was created from an address with two "@".
C17_Witness ==
    /\ resp # None
    /\ resp.op = "CreateUser"
    /\ resp.err = NilError
    /\ resp.req.Email = <<"a", "@", "b", "@", "x">>
    /\ resp.res.body.Username = <<"a">>
    /\ resp.res.body.ID \in DOMAIN users

(***************************************************************************)
(* SpecMap: rows whose optional columns are empty and rows whose optional  *)
(* columns are filled, in all four tables, and the reads that map them.    *)
(***************************************************************************)
MapAppTables ==
    {[id \in {"slack", "zoom"} |-> AppRow(id, IF id \in withLogo THEN "logo.png" ELSE "", FALSE)] :
        withLogo \in SUBSET {"slack", "zoom"}}
MapChatTables ==
    {[id \in {"c1"} |-> ChatRow(id, title, profile)] :
        title \in {"", "Dr"}, profile \in {"", "pic.png"}}

InitMap ==
    /\ users = EmptyTable
    /\ userSeq = 0
    /\ tasks = EmptyTable
    /\ taskSeq = 0
    /\ apps \in MapAppTables
    /\ conversations \in MapChatTables
    /\ messages = <<>>
    /\ InitRest

MapCreateUserReqs ==
    [FirstName : {"Ann"}, LastName : {"Lee"}, Email : {<<"c", "@", "x">>},
     Role : {"admin"}, PhoneNumber : {OptUnset, OptSet(""), OptSet("555")}]
MapCreateTaskReqs ==
    [Title : {<<"a", "b">>}, Status : {"todo"}, Label : {"feature"},
     Priority : {"low"}, Assignee : {OptUnset, OptSet("bob")},
     Description : {OptUnset, OptSet("text")}, DueDate : {OptUnset, OptSet(7)}]
NoTaskUpdate == [f \in TaskUpdateFields |-> OptUnset]
MapUpdateTaskReqs ==
    {[NoTaskUpdate EXCEPT !.Description = OptSet("")],
     [NoTaskUpdate EXCEPT !.Assignee = OptSet("amy"), !.DueDate = OptSet(9)]}

NextMap ==
    \/ \E req \in MapCreateUserReqs : Idle /\ Inserted < MaxMapRows /\ CreateUser(req)
    \/ \E req \in MapCreateTaskReqs : Idle /\ Inserted < MaxMapRows /\ CreateTask(req)
    \/ \E id \in TaskIds(MaxMapRows), req \in MapUpdateTaskReqs :
           Idle /\ WritesDone < MaxMapRows /\ UpdateTask(id, req)
    \/ \E id \in UserIds(MaxMapRows) : Idle /\ GetUser(id)
    \/ \E id \in TaskIds(MaxMapRows) : Idle /\ GetTask(id)
    \/ Idle /\ ListApps([Type |-> OptUnset, Filter |-> OptUnset, Sort |-> OptUnset])
    \/ \E id \in {"c1"} : Idle /\ GetChat(id)
    \/ Ack

SpecMap == InitMap /\ [][NextMap]_vars

\* The optional a mapper must emit for a stored text: absent for the empty
\* string, else the text itself.
EmitsText(opt, stored) == IF stored = "" THEN opt = <<>> ELSE opt = <<stored>>

\* C18: for every stored row the entity mapper emits each optional text field
\* (user phone, task description and assignee, app logo, conversation title
\* and profile) as absent exactly when the stored value is the empty string,
\* the task due date as absent exactly when the stored pointer is nil, and
\* every present value unchanged.
C18_MapperOptionals ==
    /\ \A k \in DOMAIN users :
           EmitsText(userToAPI(users[k]).PhoneNumber, users[k].PhoneNumber)
    /\ \A k \in DOMAIN tasks :
           LET out == taskToAPI(tasks[k])
           IN  /\ EmitsText(out.Description, tasks[k].Description)
               /\ EmitsText(out.Assignee, tasks[k].Assignee)
               /\ (out.DueDate = <<>>) <=> (tasks[k].DueDate = <<>>)
               /\ out.DueDate # <<>> => out.DueDate[1] = tasks[k].DueDate[1]
    /\ \A k \in DOMAIN apps : EmitsText(appToAPI(apps[k]).Logo, apps[k].Logo)
    /\ \A k \in DOMAIN conversations :
           LET out == chatConversationToAPI(conversations[k], MessagesOf(k))
           IN  /\ EmitsText(out.Title, conversations[k].Title)
               /\ EmitsText(out.Profile, conversations[k].Profile)

\* A task whose description an update emptied was read back, next to an app
\* without a logo and a conversation without a title.
C18_Witness ==
    /\ resp # None
    /\ resp.op = "GetTask"
    /\ resp.res.kind = "Task"
    /\ resp.res.body.Description = <<>>
    /\ resp.res.body.DueDate = <<7>>
    /\ \E k \in DOMAIN tasks : tasks[k].Description = "" /\ tasks[k].UpdatedAt > tasks[k].CreatedAt
    /\ \E k \in DOMAIN apps : apps[k].Logo = ""
    /\ \E k \in DOMAIN conversations : conversations[k].Title = "" /\ conversations[k].Profile # ""

(***************************************************************************)
(* SpecUpdRace: two requests update users and tasks statement by           *)
(* statement, so that both may load a row before either writes it.  Rows   *)
(* are created and never deleted.                                          *)
(***************************************************************************)
UpdRaceCreateUserReqs ==
    [FirstName : {"Ann"}, LastName : {"Lee"}, Email : {<<"c", "@", "x">>, <<"B", "@", "x">>},
     Role : {"admin"}, PhoneNumber : {OptUnset}]
UpdRaceCreateTaskReqs ==
    [Title : {<<"a", "b">>}, Status : {"todo"}, Label : {"feature"},
     Priority : {"low"}, Assignee : {OptUnset}, Description : {OptUnset},
     DueDate : {OptUnset}]
UpdRaceUserReqs ==
    {[NoUserUpdate EXCEPT !.Status = OptSet("inactive")],
     [NoUserUpdate EXCEPT !.Status = OptSet("suspended"), !.Email = OptSet(<<"B", "@", "x">>)],
     [NoUserUpdate EXCEPT !.FirstName = OptSet("Zed")]}
UpdRaceTaskReqs ==
    {[NoTaskUpdate EXCEPT !.Status = OptSet("done")],
     [NoTaskUpdate EXCEPT !.Status = OptSet("canceled"), !.DueDate = OptSet(9)],
     [NoTaskUpdate EXCEPT !.Title = OptSet(<<"z">>)]}

NextUpdRace ==
    \/ \E req \in UpdRaceCreateUserReqs : Idle /\ userSeq < MaxUpdRaceRows /\ CreateUser(req)
    \/ \E req \in UpdRaceCreateTaskReqs : Idle /\ taskSeq < MaxUpdRaceRows /\ CreateTask(req)
    \/ \E p \in Procs, id \in UserIds(MaxUpdRaceRows), req \in UpdRaceUserReqs :
           Idle /\ WritesDone + ToWrite < MaxRaceUpdates /\ UpdateUserLoad(p, id, req)
    \/ \E p \in Procs : Idle /\ UpdateUserWrite(p)
    \/ \E p \in Procs : Idle /\ UpdateUserReload(p)
    \/ \E p \in Procs, id \in TaskIds(MaxUpdRaceRows), req \in UpdRaceTaskReqs :
           Idle /\ WritesDone + ToWrite < MaxRaceUpdates /\ UpdateTaskLoad(p, id, req)
    \/ \E p \in Procs : Idle /\ UpdateTaskWrite(p)
    \/ \E p \in Procs : Idle /\ UpdateTaskReload(p)
    \/ Ack

SpecUpdRace == InitRace /\ [][NextUpdRace]_vars

\* The request of p sets no email that another row holds: nothing but a
\* stale read could be held against its write.
NoIndexConflict(p) ==
    LET call == loc[p][1]
    IN  loc[p][1].op = "UpdateUser" /\ IsSet(call.req.Email)
            => \A k \in DOMAIN users \ {call.id} : users[k].Email # call.req.Email[1]

\* C20: when two UpdateUser (or two UpdateTask) calls on one row set one
\* field and run concurrently, both succeed in every interleaving and the
\* value stored afterwards is that of the write that reached the store last;
\* no call is rejected for a stale read.  As steps: a write stores the values
\* of its request whatever the row has become since the request loaded it,
\* and answers nothing; no other step of an update changes a row; the return
\* is the row as stored, without an error.
C20_LastWriterWins ==
    [][\A p \in Procs :
          /\ (Running(p, "UpdateUser", "write") /\ NoIndexConflict(p) /\ UpdateUserWrite(p))
                => LET call == loc[p][1]
                   IN  /\ pc'[p] = "reload"
                       /\ resp' = resp
                       /\ \A f \in UserUpdateFields :
                              IsSet(call.req[f]) => users'[call.id][f] = call.req[f][1]
          /\ (Running(p, "UpdateTask", "write") /\ UpdateTaskWrite(p))
                => LET call == loc[p][1]
                   IN  /\ pc'[p] = "reload"
                       /\ resp' = resp
                       /\ \A f \in TaskUpdateFields \ {"DueDate"} :
                              IsSet(call.req[f]) => tasks'[call.id][f] = call.req[f][1]
                       /\ IsSet(call.req.DueDate) => tasks'[call.id].DueDate = call.req.DueDate
          /\ (Running(p, "UpdateUser", "reload") /\ UpdateUserReload(p))
                => /\ resp'.err = NilError
                   /\ resp'.res = [kind |-> "User", body |-> userToAPI(users[loc[p][1].id])]
                   /\ users' = users
          /\ (Running(p, "UpdateTask", "reload") /\ UpdateTaskReload(p))
                => /\ resp'.err = NilError
                   /\ resp'.res = [kind |-> "Task", body |-> taskToAPI(tasks[loc[p][1].id])]
                   /\ tasks' = tasks
          /\ (pc[p] = "idle" /\ pc'[p] = "write") => users' = users /\ tasks' = tasks]_vars

\* Both requests loaded the user before either wrote it, both have written,
\* and the status stored is the one of the request that wrote second.
C20_Witness ==
    /\ \A p \in Procs : Running(p, "UpdateUser", "reload")
    /\ loc["r1"][1].id = loc["r2"][1].id
    /\ loc["r1"][1].loaded = loc["r2"][1].loaded
    /\ loc["r1"][1].req.Status = OptSet("inactive")
    /\ loc["r2"][1].req.Status = OptSet("suspended")
    /\ LET id == loc["r1"][1].id
       IN  /\ users[id].UpdatedAt = loc["r1"][1].loaded.UpdatedAt + 2
           /\ users[id].Status = "inactive"
           /\ users[id].Email = <<"B", "@", "x">>

\* The same race on a task, after both requests have returned.
C20_WitnessTask ==
    /\ \A p \in Procs : pc[p] = "idle"
    /\ resp # None
    /\ resp.op = "UpdateTask"
    /\ resp.res.kind = "Task"
    /\ IsSet(resp.req.Status)
    /\ resp.res.body.Status # resp.req.Status[1]
    /\ resp.res.body.UpdatedAt = OptSet(tasks[resp.taskId].CreatedAt + 2)

SetFields(req) == {f \in DOMAIN req : IsSet(req[f])}

\* Both requests have written the row, none has returned, and theirs are the
\* only writes of the row since the first of them loaded it (every write adds
\* one to UpdatedAt): when their fields are disjoint, the row holds the values
\* of both.
BothStored(op, table) ==
    (/\ \A p \in Procs : Running(p, op, "reload")
     /\ loc["r1"][1].id = loc["r2"][1].id
     /\ SetFields(loc["r1"][1].req) \cap SetFields(loc["r2"][1].req) = {}
     /\ \E p \in Procs : table[loc[p][1].id].UpdatedAt = loc[p][1].loaded.UpdatedAt + 2)
        => \A p \in Procs : \A f \in SetFields(loc[p][1].req) :
               IF f = "DueDate"
               THEN table[loc[p][1].id][f] = loc[p][1].req[f]
               ELSE table[loc[p][1].id][f] = loc[p][1].req[f][1]

\* C29: when two concurrent updates of one row set disjoint fields, both
\* values are stored afterwards in every interleaving: the write of an update
\* leaves every column its request does not set as the store holds it at the
\* write, whatever the request loaded, and once both have written the row
\* holds the values of both.
C29_DisjointFieldsKept ==
    [][/\ \A p \in Procs :
             /\ (Running(p, "UpdateUser", "write") /\ UpdateUserWrite(p))
                   => LET call == loc[p][1]
                      IN  /\ \A f \in UserUpdateFields \ SetFields(call.req) :
                                 users'[call.id][f] = users[call.id][f]
                          /\ \A k \in DOMAIN users \ {call.id} : users'[k] = users[k]
             /\ (Running(p, "UpdateTask", "write") /\ UpdateTaskWrite(p))
                   => LET call == loc[p][1]
                      IN  /\ \A f \in TaskUpdateFields \ SetFields(call.req) :
                                 tasks'[call.id][f] = tasks[call.id][f]
                          /\ \A k \in DOMAIN tasks \ {call.id} : tasks'[k] = tasks[k]
       /\ BothStored("UpdateUser", users)'
       /\ BothStored("UpdateTask", tasks)']_vars

\* One request set the title and the other the status of one task; both
\* loaded the task before either wrote, both have written, and the task holds
\* the new title and the new status.
C29_Witness ==
    /\ \A p \in Procs : Running(p, "UpdateTask", "reload")
    /\ loc["r1"][1].id = loc["r2"][1].id
    /\ loc["r1"][1].loaded = loc["r2"][1].loaded
    /\ loc["r1"][1].req = [NoTaskUpdate EXCEPT !.Title = OptSet(<<"z">>)]
    /\ loc["r2"][1].req = [NoTaskUpdate EXCEPT !.Status = OptSet("done")]
    /\ LET id == loc["r1"][1].id
       IN  /\ tasks[id].UpdatedAt = loc["r1"][1].loaded.UpdatedAt + 2
           /\ tasks[id].Title = <<"z">>
           /\ tasks[id].Status = "done"

\* The same on a user: first name and status.
C29_WitnessUser ==
    /\ \A p \in Procs : Running(p, "UpdateUser", "reload")
    /\ loc["r1"][1].id = loc["r2"][1].id
    /\ loc["r1"][1].loaded = loc["r2"][1].loaded
    /\ loc["r1"][1].req = [NoUserUpdate EXCEPT !.Status = OptSet("inactive")]
    /\ loc["r2"][1].req = [NoUserUpdate EXCEPT !.FirstName = OptSet("Zed")]
    /\ LET id == loc["r1"][1].id
       IN  /\ users[id].UpdatedAt = loc["r1"][1].loaded.UpdatedAt + 2
           /\ users[id].FirstName = "Zed"
           /\ users[id].Status = "inactive"

(***************************************************************************)
(* ListUsers and ListTasks statement by statement: the count (query.Count) *)
(* and the page (query.Offset.Limit.Find) are two reads of the store.      *)
(* loc[p] keeps the total between them.                                    *)
(***************************************************************************)
ListCount(p, op, params, total) ==
    /\ pc[p] = "idle"
    /\ IF ctxErr # NilError
       THEN /\ resp' = [op |-> op, err |-> ctxErr, res |-> NoResult]
            /\ UNCHANGED <<pc, loc>>
       ELSE /\ loc' = [loc EXCEPT ![p] = <<[op |-> op, params |-> params, total |-> total]>>]
            /\ pc' = [pc EXCEPT ![p] = "fetch"]
            /\ UNCHANGED resp
    /\ UNCHANGED <<storeVars, ctxErr, errVars, idVars, wiringVars>>

ListResponse(p, kind, data) ==
    LET call == loc[p][1]
        page == Or(call.params.Page, 1)
        pageSize == Or(call.params.PageSize, 10)
    IN  [op |-> call.op, proc |-> p, err |-> NilError, params |-> call.params,
         res |-> [kind |-> kind, Data |-> data,
                  Meta |-> [Page |-> page, PageSize |-> pageSize, Total |-> call.total,
                            TotalPages |-> totalPagesOf(call.total, pageSize)]]]

ListUsersCount(p, params) ==
    ListCount(p, "ListUsers", params,
              Cardinality({k \in DOMAIN users : UserMatches(users[k], params)}))

ListUsersFetch(p) ==
    /\ Running(p, "ListUsers", "fetch")
    /\ LET params == loc[p][1].params
           pageSize == Or(params.PageSize, 10)
           offset == (Or(params.Page, 1) - 1) * pageSize
           matching == {k \in DOMAIN users : UserMatches(users[k], params)}
       IN  \E order \in Orderings(matching) :
               LET found == OffsetLimit(order, offset, pageSize)
               IN  Return(p, ListResponse(p, "UserListResponse",
                                          [i \in 1..Len(found) |-> userToAPI(users[found[i]])]))
    /\ UNCHANGED <<storeVars, ctxErr, errVars, idVars, wiringVars>>

ListTasksCount(p, params) ==
    ListCount(p, "ListTasks", params,
              Cardinality({k \in DOMAIN tasks : TaskMatches(tasks[k], params)}))

ListTasksFetch(p) ==
    /\ Running(p, "ListTasks", "fetch")
    /\ LET params == loc[p][1].params
           pageSize == Or(params.PageSize, 10)
           offset == (Or(params.Page, 1) - 1) * pageSize
           found == TaskPageIDs(params)
       IN  Return(p, ListResponse(p, "TaskListResponse",
                                  [i \in 1..Len(found) |-> taskToAPI(tasks[found[i]])]))
    /\ UNCHANGED <<storeVars, ctxErr, errVars, idVars, wiringVars>>

(***************************************************************************)
(* SpecListRace: rows are created and deleted while two requests list      *)
(* users and tasks statement by statement.                                 *)
(***************************************************************************)
ListRaceCreateUserReqs ==
    [FirstName : {"Ann"}, LastName : {"Lee"}, Email : {<<"c", "@", "x">>, <<"B", "@", "x">>},
     Role : {"admin"}, PhoneNumber : {OptUnset}]
ListRaceUsersParams ==
    [Page : {OptUnset, OptSet(2)}, PageSize : {OptSet(1), OptSet(2)}, Status : {{}},
     Role : {{}}, Username : {OptUnset}]
ListRaceTasksParams ==
    [Page : {OptUnset, OptSet(2)}, PageSize : {OptSet(1), OptSet(2)}, Status : {{}},
     Priority : {{}}, Filter : {OptUnset}]

NextListRace ==
    \/ \E req \in ListRaceCreateUserReqs : Idle /\ Inserted < MaxListRaceRows /\ CreateUser(req)
    \/ \E req \in UpdRaceCreateTaskReqs : Idle /\ Inserted < MaxListRaceRows /\ CreateTask(req)
    \/ \E id \in UserIds(MaxListRaceRows) : Idle /\ DeleteUser(id)
    \/ \E id \in TaskIds(MaxListRaceRows) : Idle /\ DeleteTask(id)
    \/ \E p \in Procs, params \in ListRaceUsersParams : Idle /\ ListUsersCount(p, params)
    \/ \E p \in Procs : Idle /\ ListUsersFetch(p)
    \/ \E p \in Procs, params \in ListRaceTasksParams : Idle /\ ListTasksCount(p, params)
    \/ \E p \in Procs : Idle /\ ListTasksFetch(p)
    \/ Ack

SpecListRace == InitRace /\ [][NextListRace]_vars

\* What a page of size s at offset o holds of n rows.
PageLength(n, o, s) == IF n <= o THEN 0 ELSE IF n - o < s THEN n - o ELSE s

\* The response of a fetch: total is the count taken earlier, data is a page of
\* the rows that satisfy the filters now.
FetchedFrom(p, satisfying) ==
    LET call == loc[p][1]
        s == Or(call.params.PageSize, 10)
        o == (Or(call.params.Page, 1) - 1) * s
        ids == {resp'.res.Data[i].ID : i \in 1..Len(resp'.res.Data)}
    IN  /\ resp'.err = NilError
        /\ resp'.res.Meta.Total = call.total
        /\ ids \subseteq satisfying
        /\ Cardinality(ids) = Len(resp'.res.Data)
        /\ Len(resp'.res.Data) = PageLength(Cardinality(satisfying), o, s)
        /\ Len(resp'.res.Data) <= s
        /\ UNCHANGED storeVars

\* C21: the count and the page fetch of ListUsers and ListTasks are two reads
\* of the store: total is the size of the filtered set at the count, data is a
\* page of the filtered set at the fetch, so that after a create or delete
\* between them the two differ (len(data) > total is possible), while
\* len(data) <= page_size always holds.
C21_CountThenFetch ==
    [][\A p \in Procs :
          /\ (Running(p, "ListUsers", "fetch") /\ ListUsersFetch(p))
                => FetchedFrom(p, {k \in DOMAIN users : UserSatisfies(users[k], loc[p][1].params)})
          /\ (Running(p, "ListTasks", "fetch") /\ ListTasksFetch(p))
                => FetchedFrom(p, {k \in DOMAIN tasks : TaskSatisfies(tasks[k], loc[p][1].params)})]_vars

\* A list returned more rows than its total: a create came between its count
\* and its fetch.
C21_Witness ==
    /\ resp # None
    /\ resp.op = "ListUsers"
    /\ resp.err = NilError
    /\ Len(resp.res.Data) > resp.res.Meta.Total
    /\ Len(resp.res.Data) <= resp.res.Meta.PageSize

\* A list returned a total larger than the rows stored: a delete came between
\* its count and its fetch.
C21_WitnessDelete ==
    /\ resp # None
    /\ resp.op = "ListTasks"
    /\ resp.err = NilError
    /\ resp.res.Meta.Total > Cardinality(DOMAIN tasks)
    /\ resp.res.Data = <<>>
    /\ resp.params.Page = OptUnset

(***************************************************************************)
(* handlers/server.go: RouterBuilder.  An http.Handler is the sequence of  *)
(* steps it runs for a request; a middleware named m wraps a handler into  *)
(* one that runs m and then the wrapped handler.                           *)
(***************************************************************************)
Server == "server"
MiddlewareNames == {"log", "auth", "cors"}

Wrap(mw, next) == <<mw>> \o next

\* (The loop of Build run from the first middleware to the last.)
RECURSIVE buildHandlerForward(_, _)
buildHandlerForward(mws, h) ==
    IF mws = <<>> THEN h
    ELSE buildHandlerForward(Tail(mws), Wrap(Head(mws), h))

\* The loop of Build: for i from len-1 down to 0, handler = middlewares[i](handler).
RECURSIVE buildHandler(_, _)
buildHandler(mws, h) ==
    IF mws = <<>> THEN h
    ELSE buildHandler(SubSeq(mws, 1, Len(mws) - 1), Wrap(mws[Len(mws)], h))

WithMiddleware(mw) ==
    /\ Len(middlewares) < MaxMiddlewares
    /\ middlewares' = Append(middlewares, mw)
    /\ UNCHANGED <<storeVars, resp, procVars, errVars, idVars, handler, trace, services>>

Build ==
    /\ handler' = buildHandler(middlewares, <<Server>>)
    /\ UNCHANGED <<storeVars, resp, procVars, errVars, idVars, middlewares, trace, services>>

\* handler.ServeHTTP of the handler Build returned.
ServeHTTP ==
    /\ handler # <<>>
    /\ trace' = handler
    /\ UNCHANGED <<storeVars, resp, procVars, errVars, idVars, middlewares, handler, services>>

NextRouter ==
    \/ \E mw \in MiddlewareNames : WithMiddleware(mw)
    \/ Build
    \/ ServeHTTP

SpecRouter == Init /\ [][NextRouter]_vars

\* C22: the middlewares run, for each request, in the order in which they
\* were added with WithMiddleware: the first one added is the outermost
\* wrapper and the generated server handler runs after all of them.
C22_MiddlewareOrder ==
    [][/\ Build =>
            /\ Len(handler') = Len(middlewares) + 1
            /\ \A i \in 1..Len(middlewares) : handler'[i] = middlewares[i]
            /\ handler'[Len(middlewares) + 1] = Server
       /\ ServeHTTP =>
            /\ trace' = handler
            /\ trace'[Len(trace')] = Server
            /\ \A i \in 1..(Len(trace') - 1) : trace'[i] # Server]_vars

\* A request ran log, then auth, then cors, then the server: the order in
\* which the three were added.
C22_Witness ==
    /\ middlewares = <<"log", "auth", "cors">>
    /\ trace = <<"log", "auth", "cors", Server>>

(***************************************************************************)
(* services/ogen_handler.go: the OgenHandler, which hands each operation   *)
(* to the service that owns it, if it was built with that service.         *)
(***************************************************************************)
ErrMissingRequired == ErrUnauthorized

\* (A method without the nil check.)
DelegateUnchecked(service, op, call) == call

\* if h.<service> == nil { return nil, ErrMissingRequired }; return the call.
Delegate(service, op, call) ==
    IF service \notin services
    THEN /\ resp' = [op |-> op, err |-> <<ErrMissingRequired>>, res |-> NoResult]
         /\ UNCHANGED <<storeVars, procVars, errVars, idVars, wiringVars>>
    ELSE call

OgenLogin(req) == Delegate("auth", "Login", Login(req))
OgenLogout == Delegate("auth", "Logout", Logout)
OgenGetCurrentUser == Delegate("auth", "GetCurrentUser", GetCurrentUser)
OgenListUsers(params) == Delegate("user", "ListUsers", ListUsers(params))
OgenCreateUser(req) == Delegate("user", "CreateUser", CreateUser(req))
OgenGetUser(id) == Delegate("user", "GetUser", GetUser(id))
OgenUpdateUser(id, req) == Delegate("user", "UpdateUser", UpdateUser(id, req))
OgenDeleteUser(id) == Delegate("user", "DeleteUser", DeleteUser(id))
OgenInviteUser(req) == Delegate("user", "InviteUser", InviteUser(req))
OgenListTasks(params) == Delegate("task", "ListTasks", ListTasks(params))
OgenCreateTask(req) == Delegate("task", "CreateTask", CreateTask(req))
OgenGetTask(id) == Delegate("task", "GetTask", GetTask(id))
OgenUpdateTask(id, req) == Delegate("task", "UpdateTask", UpdateTask(id, req))
OgenDeleteTask(id) == Delegate("task", "DeleteTask", DeleteTask(id))
OgenListApps(params) == Delegate("app", "ListApps", ListApps(params))
OgenConnectApp(id) == Delegate("app", "ConnectApp", ConnectApp(id))
OgenDisconnectApp(id) == Delegate("app", "DisconnectApp", DisconnectApp(id))
OgenListChats(params) == Delegate("chat", "ListChats", ListChats(params))
OgenGetChat(id) == Delegate("chat", "GetChat", GetChat(id))
OgenSendMessage(id) == Delegate("chat", "SendMessage", SendMessage(id, "hi"))
OgenGetDashboardStats == Delegate("dashboard", "GetDashboardStats", GetDashboardStats)
OgenGetDashboardOverview == Delegate("dashboard", "GetDashboardOverview", GetDashboardOverview)
OgenGetRecentSales == Delegate("dashboard", "GetRecentSales", GetRecentSales)

\* The service that owns each operation.
Owner ==
    [Login |-> "auth", Logout |-> "auth", GetCurrentUser |-> "auth",
     ListUsers |-> "user", CreateUser |-> "user", GetUser |-> "user",
     UpdateUser |-> "user", DeleteUser |-> "user", InviteUser |-> "user",
     ListTasks |-> "task", CreateTask |-> "task", GetTask |-> "task",
     UpdateTask |-> "task", DeleteTask |-> "task", ListApps |-> "app",
     ConnectApp |-> "app", DisconnectApp |-> "app", ListChats |-> "chat",
     GetChat |-> "chat", SendMessage |-> "chat", GetDashboardStats |-> "dashboard",
     GetDashboardOverview |-> "dashboard", GetRecentSales |-> "dashboard"]

(***************************************************************************)
(* SpecFacade: every operation is called through an OgenHandler built with *)
(* all services, with all but one, or with none.                           *)
(***************************************************************************)
FacadeListAppsParams ==
    [Type : {OptUnset, OptSet("connected")}, Filter : {OptUnset}, Sort : {OptUnset}]

InitFacade ==
    /\ users = EmptyTable
    /\ userSeq = 0
    /\ tasks = EmptyTable
    /\ taskSeq = 0
    /\ apps = [id \in {"slack", "zoom"} |-> AppRow(id, "logo.png", id = "zoom")]
    /\ conversations = [id \in {"c1"} |-> ChatRow(id, "Dr", "")]
    /\ messages = <<>>
    /\ resp = None
    /\ pc = <<>>
    /\ loc = <<>>
    /\ ctxErr = NilError
    /\ hideErrorDetails = FALSE
    /\ errIn = NilError
    /\ httpResp = None
    /\ rowCount = 0
    /\ newID = <<>>
    /\ middlewares = <<>>
    /\ handler = <<>>
    /\ trace = <<>>
    /\ services \in {AllServices, {}} \cup {AllServices \ {missing} : missing \in AllServices}

\* Apps and messages have been written less than MaxFacadeRows times.
FewWrites ==
    Len(messages)
    + Cardinality({<<k, i>> \in (DOMAIN apps) \X (1..MaxFacadeRows) :
                      i <= apps[k].UpdatedAt - apps[k].CreatedAt})
        < MaxFacadeRows

NextFacade ==
    \/ \E req \in CtxLoginReqs : Idle /\ OgenLogin(req)
    \/ Idle /\ OgenLogout
    \/ Idle /\ OgenGetCurrentUser
    \/ \E params \in CtxListUsersParams : Idle /\ OgenListUsers(params)
    \/ \E req \in CtxCreateUserReqs : Idle /\ Inserted < MaxFacadeRows /\ OgenCreateUser(req)
    \/ \E id \in UserIds(MaxFacadeRows) : Idle /\ OgenGetUser(id)
    \/ \E id \in UserIds(MaxFacadeRows), req \in CtxUpdateUserReqs : Idle /\ UpdatesDone < MaxUpdates /\ OgenUpdateUser(id, req)
    \/ \E id \in UserIds(MaxFacadeRows) : Idle /\ OgenDeleteUser(id)
    \/ \E req \in CtxInviteUserReqs : Idle /\ Inserted < MaxFacadeRows /\ OgenInviteUser(req)
    \/ \E params \in CtxListTasksParams : Idle /\ OgenListTasks(params)
    \/ \E req \in CtxCreateTaskReqs : Idle /\ Inserted < MaxFacadeRows /\ OgenCreateTask(req)
    \/ \E id \in TaskIds(MaxFacadeRows) : Idle /\ OgenGetTask(id)
    \/ \E id \in TaskIds(MaxFacadeRows), req \in CtxUpdateTaskReqs : Idle /\ UpdatesDone < MaxUpdates /\ OgenUpdateTask(id, req)
    \/ \E id \in TaskIds(MaxFacadeRows) : Idle /\ OgenDeleteTask(id)
    \/ \E params \in FacadeListAppsParams : Idle /\ OgenListApps(params)
    \/ \E id \in {"slack", MissingAppId} : Idle /\ FewWrites /\ OgenConnectApp(id)
    \/ \E id \in {"zoom", MissingAppId} : Idle /\ FewWrites /\ OgenDisconnectApp(id)
    \/ \E params \in CtxListChatsParams : Idle /\ OgenListChats(params)
    \/ \E id \in {"c1", MissingChatId} : Idle /\ OgenGetChat(id)
    \/ \E id \in {"c1", MissingChatId} : Idle /\ FewWrites /\ OgenSendMessage(id)
    \/ Idle /\ OgenGetDashboardStats
    \/ Idle /\ OgenGetDashboardOverview
    \/ Idle /\ OgenGetRecentSales
    \/ Ack

SpecFacade == InitFacade /\ [][NextFacade]_vars

\* The same calls made on the services themselves.
ServiceCalls ==
    \/ \E req \in CtxLoginReqs : Login(req)
    \/ Logout
    \/ GetCurrentUser
    \/ \E params \in CtxListUsersParams : ListUsers(params)
    \/ \E req \in CtxCreateUserReqs : Inserted < MaxFacadeRows /\ CreateUser(req)
    \/ \E id \in UserIds(MaxFacadeRows) : GetUser(id)
    \/ \E id \in UserIds(MaxFacadeRows), req \in CtxUpdateUserReqs : UpdatesDone < MaxUpdates /\ UpdateUser(id, req)
    \/ \E id \in UserIds(MaxFacadeRows) : DeleteUser(id)
    \/ \E req \in CtxInviteUserReqs : Inserted < MaxFacadeRows /\ InviteUser(req)
    \/ \E params \in CtxListTasksParams : ListTasks(params)
    \/ \E req \in CtxCreateTaskReqs : Inserted < MaxFacadeRows /\ CreateTask(req)
    \/ \E id \in TaskIds(MaxFacadeRows) : GetTask(id)
    \/ \E id \in TaskIds(MaxFacadeRows), req \in CtxUpdateTaskReqs : UpdatesDone < MaxUpdates /\ UpdateTask(id, req)
    \/ \E id \in TaskIds(MaxFacadeRows) : DeleteTask(id)
    \/ \E params \in FacadeListAppsParams : ListApps(params)
    \/ \E id \in {"slack", MissingAppId} : FewWrites /\ ConnectApp(id)
    \/ \E id \in {"zoom", MissingAppId} : FewWrites /\ DisconnectApp(id)
    \/ \E params \in CtxListChatsParams : ListChats(params)
    \/ \E id \in {"c1", MissingChatId} : GetChat(id)
    \/ \E id \in {"c1", MissingChatId} : FewWrites /\ SendMessage(id, "hi")
    \/ GetDashboardStats
    \/ GetDashboardOverview
    \/ GetRecentSales

\* C24: when the OgenHandler is built without one of its services, every
\* operation owned by that service returns ErrMissingRequired without invoking
\* any service or touching the store; the operations of the configured
\* services behave as usual; and the error mapper resolves ErrMissingRequired
\* to the UNAUTHORIZED (401) entry, because it is the same value as
\* ErrUnauthorized.
C24_MissingService ==
    [][(Idle /\ resp' # None) =>
          IF Owner[resp'.op] \in services
          THEN ServiceCalls
          ELSE /\ resp'.err = <<ErrMissingRequired>>
               /\ resp'.res = NoResult
               /\ UNCHANGED storeVars
               /\ ErrMissingRequired = ErrUnauthorized
               /\ mapServiceError(resp'.err) = Errors.Unauthorized
               /\ mapServiceError(resp'.err).Code = "UNAUTHORIZED"
               /\ mapServiceError(resp'.err).HTTPStatus = 401]_vars

\* Built without the task service: DeleteTask was refused while a user, which
\* the user service created, is stored.
C24_Witness ==
    /\ services = AllServices \ {"task"}
    /\ resp # None
    /\ resp.op = "DeleteTask"
    /\ resp.err = <<ErrMissingRequired>>
    /\ users # EmptyTable
    /\ tasks = EmptyTable

====
